---- MODULE Spec2Model ----
(***************************************************************************)
(* Kids Church check-in: the attendance session engine of                  *)
(* src/src/app/today/page.tsx and the search boxes of the Manage,          *)
(* edit-child and create-child dialogs, over one shared record store.      *)
(*                                                                         *)
(* Every async handler is cut at its awaits: the part up to the await is   *)
(* one action (it records the awaited store call in `inflight`, with the   *)
(* values its closure captured), and the store call's execution together   *)
(* with the continuation up to the next await is another action.           *)
(* A React effect runs in the action that changed one of its dependencies. *)
(***************************************************************************)
EXTENDS Integers, Sequences, FiniteSets, TLC

\* ------------------------------------------------------------------ bounds
MaxAttendance == 2      \* attendance rows the store may hold
MaxInflight   == 2      \* store calls one session may have in flight
MaxNow        == 2      \* clock readings (new Date()) distinguished
MaxSteps      == 1      \* weeks the date picker may move away from the start
MaxStaged     == 2      \* guardians the create-child form may stage
MaxLinks      == 3      \* child_guardians rows the store may hold

\* ------------------------------------------------------------- identities
NULL      == "null"
Sessions  == {"s1", "s2"}
Children  == {"c1", "c2"}
Guardians == {"g1", "g2"}

\* a date of birth is [y, m, d]; the absent one is NoDob
NoDob == [y |-> 0, m |-> 0, d |-> 0]

\* ---------------------------------------------------------- pure helpers
\* today/page.tsx trims the query and lower-cases nothing itself: ilike does
Lower(ch) == IF ch = "A" THEN "a" ELSE IF ch = "L" THEN "l" ELSE IF ch = "B" THEN "b" ELSE ch

LowerSeq(w) == [i \in 1..Len(w) |-> Lower(w[i])]

RECURSIVE TrimLeft(_)
TrimLeft(w) == IF w # <<>> /\ Head(w) = " " THEN TrimLeft(Tail(w)) ELSE w

RECURSIVE TrimRight(_)
TrimRight(w) ==
  IF w # <<>> /\ w[Len(w)] = " " THEN TrimRight(SubSeq(w, 1, Len(w) - 1)) ELSE w

\* String.prototype.trim
Trim(w) == TrimRight(TrimLeft(w))

\* column ILIKE %q% : case-insensitive substring
ILike(col, q) ==
  \E i \in 0..(Len(col) - Len(q)) :
     LowerSeq(SubSeq(col, i + 1, i + Len(q))) = LowerSeq(q)

\* WA bucket logic: the bucket of a whole-year age (null is the empty set)
\* the classification with age 5 already in the middle bucket
groupKeyForAgeOnJune30From5(ageYears) ==
  IF ageYears = {} THEN "YEARS_1_3"
  ELSE LET n == CHOOSE x \in ageYears : TRUE
       IN  IF n < 5 THEN "KINDY_PREPRIMARY"
           ELSE IF n <= 8 THEN "YEARS_1_3"
           ELSE "YEARS_4_6"

groupKeyForAgeOnJune30(ageYears) ==
  IF ageYears = {} THEN "YEARS_1_3"
  ELSE LET n == CHOOSE x \in ageYears : TRUE
       IN  IF n <= 5 THEN "KINDY_PREPRIMARY"
           ELSE IF n <= 8 THEN "YEARS_1_3"
           ELSE "YEARS_4_6"

\* the bucket an earlier revision of the page stored with its check-ins
groupKeyForAge(ageYears) ==
  IF ageYears = {} THEN "MIDDLE"
  ELSE LET n == CHOOSE x \in ageYears : TRUE
       IN  IF n <= 4 THEN "LITTLE"
           ELSE IF n <= 10 THEN "MIDDLE"
           ELSE "OLDER"

\* ------------------------------------------------------------- Date
\* A Date is its local day number: day 0 is Sunday 2025-05-25, and the time
\* of day, which startOfDayLocal strips, is not represented.
EpochYear      == 2025
EpochYearStart == -144     \* the day number of 2025-01-01

isLeapYear(y) == (y % 4 = 0 /\ y % 100 # 0) \/ y % 400 = 0

\* leap years before year y
LeapsBefore(y) == ((y - 1) \div 4) - ((y - 1) \div 100) + ((y - 1) \div 400)

\* the day number of 1 January
YearStart(y) ==
  EpochYearStart + 365 * (y - EpochYear) + LeapsBefore(y) - LeapsBefore(EpochYear)

\* months are numbered 0..11, as getMonth() numbers them
DaysInMonth(y, m) ==
  IF m = 1 THEN (IF isLeapYear(y) THEN 29 ELSE 28)
  ELSE IF m \in {3, 5, 8, 10} THEN 30 ELSE 31

\* the days of the year before the first of month m
DaysBeforeMonth(y, m) ==
  <<0, 31, 59, 90, 120, 151, 181, 212, 243, 273, 304, 334>>[m + 1]
    + (IF m > 1 /\ isLeapYear(y) THEN 1 ELSE 0)

\* the year whose days include day t: a year is at least 365 days long, so
\* the estimate is at most one year off
getFullYear(t) ==
  LET g == EpochYear + ((t - EpochYearStart) \div 365)
  IN  IF t < YearStart(g) THEN g - 1
      ELSE IF t >= YearStart(g + 1) THEN g + 1
      ELSE g

getMonth(t) ==
  LET y == getFullYear(t)
      n == t - YearStart(y)
  IN  CHOOSE m \in 0..11 :
        DaysBeforeMonth(y, m) <= n /\ n < DaysBeforeMonth(y, m) + DaysInMonth(y, m)

getDate(t) ==
  LET y == getFullYear(t)
  IN  t - YearStart(y) - DaysBeforeMonth(y, getMonth(t)) + 1

getDay(t) == t % 7

\* new Date(y, m, d): a day below 1 or past the month's end rolls over
NewDate(y, m, d) == YearStart(y) + DaysBeforeMonth(y, m) + d - 1

startOfDayLocal(d) == NewDate(getFullYear(d), getMonth(d), getDate(d))

\* the coming Sunday, never the day itself
nextSundayAfter(from) ==
  LET d   == startOfDayLocal(from)
      add == 7 - getDay(d)
  IN  NewDate(getFullYear(d), getMonth(d), getDate(d) + add)

nextOrSameSunday(from) ==
  LET d   == startOfDayLocal(from)
      add == (7 - getDay(d)) % 7
  IN  NewDate(getFullYear(d), getMonth(d), getDate(d) + add)

\* a day of the month that stops at the month's ends instead of rolling over
addDaysClamped(d, days) ==
  LET n    == getDate(d) + days
      last == DaysInMonth(getFullYear(d), getMonth(d))
  IN  NewDate(getFullYear(d), getMonth(d),
              IF n < 1 THEN 1 ELSE IF n > last THEN last ELSE n)

addDays(d, days) == NewDate(getFullYear(d), getMonth(d), getDate(d) + days)

\* "YYYY-MM-DD", as the record of its three numbers. It is one-to-one on days,
\* and requests and attendance rows carry the day it names.
toISODate(d) == [y |-> getFullYear(d), m |-> getMonth(d) + 1, d |-> getDate(d)]

\* Wednesday 2025-06-04
Today == 10

\* ------------------------------------------------------------------ state
VARIABLES
  \* the record store
  children_tbl,       \* child id -> [first_name, last_name, dob, active]
  guardians_tbl,      \* guardian id -> [full_name, phone, active]
  child_guardians,    \* sequence of link rows [child_id, guardian_id, active]
  attendance,         \* sequence of attendance rows; a row's id is its index
  now,                \* the clock new Date() reads
  env,                \* the device: [today, offset], the clock's day and the side of UTC
  inflight,           \* awaited store calls, with what their closures captured
  \* today/page.tsx, one copy per open session
  checkInOpen, query, results, searching, searchError,
  selectedChild, guardians, loadingGuardians, guardianError,
  checkInError, checkingIn, createGuardianOpen, linkingGuardian,
  inline,             \* CreateGuardianInline of the guardian step or of checkout
  serviceSunday, checkedIn, loadingToday, todayError,
  auth,               \* the caller as the page knows it, and the route shown
  checkOutOpen, checkOutTarget, checkOutGuardians, loadingCheckOutGuardians,
  checkOutError, checkingOut, createPickupOpen,
  \* the dialogs of one terminal: the state of each component, as a record
  manage,             \* ManageModal
  editChild,          \* EditChildModal, mounted by ManageModal while it is open
  createChild         \* CreateChildModal

storeVars   == <<children_tbl, guardians_tbl, child_guardians, attendance, now, env>>
checkInVars == <<checkInOpen, query, results, searching, searchError,
                 selectedChild, guardians, loadingGuardians, guardianError,
                 checkInError, checkingIn, createGuardianOpen, linkingGuardian,
                 inline>>
rosterVars  == <<serviceSunday, checkedIn, loadingToday, todayError, auth>>
checkOutVars == <<checkOutOpen, checkOutTarget, checkOutGuardians,
                  loadingCheckOutGuardians, checkOutError, checkingOut,
                  createPickupOpen>>
pageVars   == <<checkInVars, rosterVars, checkOutVars>>
dialogVars == <<manage, editChild, createChild>>
vars == <<storeVars, inflight, checkInVars, rosterVars, checkOutVars, dialogVars>>

\* ------------------------------------------------- the device's settings
\* offset "east" is a time zone at or ahead of UTC, "west" one behind it
Offsets == {"east", "west"}
HomeEnv == [today |-> Today, offset |-> "east"]

\* a date-of-birth string that Date cannot parse
BadDob == [y |-> -1, m |-> 0, d |-> 0]

\* new Date("YYYY-MM-DD") is midnight UTC of that day: behind UTC it is
\* still the evening of the day before
parseDob(dob, offset) ==
  NewDate(dob.y, dob.m - 1, dob.d) - (IF offset = "west" THEN 1 ELSE 0)

\* ageOnJune30ThisYear on a device whose clock and time zone are e; the
\* result is a set: {} is the null age, {n} the age n
ageOnDevice(dob, e) ==
  IF dob = NoDob \/ dob = BadDob THEN {}
  ELSE LET birth  == parseDob(dob, e.offset)
           cutoff == NewDate(getFullYear(e.today), 5, 30)
           age    == getFullYear(cutoff) - getFullYear(birth)
           m      == getMonth(cutoff) - getMonth(birth)
       IN  IF m < 0 \/ (m = 0 /\ getDate(cutoff) < getDate(birth))
           THEN {age - 1} ELSE {age}

\* whole years on 30 June of the clock's year
ageOnJune30ThisYear(dob) == ageOnDevice(dob, env)

\* ------------------------------------------------------- the record store
NoChild == [id |-> NULL, dob |-> NoDob]

\* children: .eq("active", true).or(first_name.ilike, last_name.ilike)
\* (the order by last_name and the limit of 20 are not modelled: a set)
searchChildren(tbl, q) ==
  { [id |-> c, dob |-> tbl[c].dob] :
      c \in { x \in Children : /\ tbl[x].active = "true"
                               /\ (ILike(tbl[x].first_name, q) \/ ILike(tbl[x].last_name, q)) } }

\* child_guardians: select guardian_id .eq(child_id).eq("active", true)
activeLinkIds(links, c) ==
  { links[i].guardian_id :
      i \in { j \in 1..Len(links) : links[j].child_id = c /\ links[j].active = "true" } }

\* the guardians select without the filter on g.active
guardiansInUnfiltered(tbl, ids) == ids

\* guardians: .in("id", ids), then filter g.active !== false, de-duplicated
guardiansIn(tbl, ids) == { g \in ids : tbl[g].active # "false" }

\* guardians: .eq("active", true).or(full_name.ilike, phone.ilike)
\* (the order by full_name and the limit of 25 are not modelled: a set)
guardiansMatching(tbl, q) ==
  { g \in Guardians : /\ tbl[g].active = "true"
                      /\ (ILike(tbl[g].full_name, q) \/ ILike(tbl[g].phone, q)) }

\* the update without its .eq("guardian_id", guardianId)
deactivateLinksOfChild(links, c, g) ==
  [i \in 1..Len(links) |->
     IF links[i].child_id = c THEN [links[i] EXCEPT !.active = "false"] ELSE links[i]]

\* child_guardians: .update({ active: false }).eq(child_id).eq(guardian_id)
deactivateLink(links, c, g) ==
  [i \in 1..Len(links) |->
     IF links[i].child_id = c /\ links[i].guardian_id = g
       THEN [links[i] EXCEPT !.active = "false"]
       ELSE links[i]]

\* child_guardians: .update({ active: true }).eq(child_id).eq(guardian_id)
activateLink(links, c, g) ==
  [i \in 1..Len(links) |->
     IF links[i].child_id = c /\ links[i].guardian_id = g
       THEN [links[i] EXCEPT !.active = "true"]
       ELSE links[i]]

\* child_guardians: .insert({ child_id, guardian_id, active: true })
insertLink(links, c, g) ==
  Append(links, [child_id |-> c, guardian_id |-> g, active |-> "true"])

\* child_guardians: select .eq(child_id).eq(guardian_id): the rows of a pair
linkRows(links, c, g) ==
  { i \in 1..Len(links) : links[i].child_id = c /\ links[i].guardian_id = g }

\* child_guardians: select guardian_id, active .eq(child_id), then the filter
\* active !== false of loadLinkedGuardians
linkIdsNotInactive(links, c) ==
  { links[i].guardian_id :
      i \in { j \in 1..Len(links) : links[j].child_id = c /\ links[j].active # "false" } }

\* attendance rows of a date, ordered by check_in_time ascending (ties by id)
RECURSIVE orderByCheckIn(_, _)
orderByCheckIn(att, ids) ==
  IF ids = {} THEN <<>>
  ELSE LET first == CHOOSE i \in ids :
                      \A j \in ids :
                         \/ att[i].check_in_time < att[j].check_in_time
                         \/ (att[i].check_in_time = att[j].check_in_time /\ i <= j)
       IN  <<first>> \o orderByCheckIn(att, ids \ {first})

\* loadToday's rows with the bucket computed again from the child's row
rosterRowsRecomputed(att, tbl, date) ==
  LET ids   == { i \in 1..Len(att) : att[i].service_date = date }
      order == orderByCheckIn(att, ids)
  IN  [k \in 1..Len(order) |->
         [attendance_id  |-> order[k],
          child_id       |-> att[order[k]].child_id,
          group_key      |-> groupKeyForAgeOnJune30(
                               ageOnJune30ThisYear(tbl[att[order[k]].child_id].dob)),
          check_in_time  |-> att[order[k]].check_in_time,
          check_out_time |-> att[order[k]].check_out_time]]

\* loadToday's select and its map to CheckedInRow
rosterRows(att, tbl, date) ==
  LET ids   == { i \in 1..Len(att) : att[i].service_date = date }
      order == orderByCheckIn(att, ids)
  IN  [k \in 1..Len(order) |->
         [attendance_id  |-> order[k],
          child_id       |-> att[order[k]].child_id,
          group_key      |-> att[order[k]].group_key,
          check_in_time  |-> att[order[k]].check_in_time,
          check_out_time |-> att[order[k]].check_out_time]]

NoRow == [attendance_id |-> 0, child_id |-> NULL, group_key |-> NULL,
          check_in_time |-> 0, check_out_time |-> 0]

\* a check_out_time of 0 is the null one
IsOpen(row) == row.check_out_time = 0

\* the sections with the oldest first
groupOrderOldestFirst == <<"YEARS_4_6", "YEARS_1_3", "KINDY_PREPRIMARY">>

\* the sections of the roster, in the order they are rendered
groupOrder == <<"KINDY_PREPRIMARY", "YEARS_1_3", "YEARS_4_6">>

RECURSIVE rowsOfKey(_, _)
rowsOfKey(rows, key) ==
  IF rows = <<>> THEN <<>>
  ELSE IF Head(rows).group_key = key
    THEN <<Head(rows)>> \o rowsOfKey(Tail(rows), key)
    ELSE rowsOfKey(Tail(rows), key)

\* grouped: for (const r of checkedIn) out[r.group_key]?.push(r); a row whose
\* key is none of the three is pushed nowhere
grouped(rows) ==
  [key \in { groupOrder[i] : i \in 1..Len(groupOrder) } |-> rowsOfKey(rows, key)]

\* children: .update(payload).eq("id", childId), the date of birth of payload
updateChild(tbl, c, dob) == [tbl EXCEPT ![c].dob = dob]

\* ---------------------------------------------------- awaited store calls
BlankReq == [sess |-> NULL, kind |-> NULL, cont |-> NULL, term |-> <<>>,
             child |-> NULL, dob |-> NoDob, guardian |-> NULL, ids |-> {},
             date |-> 0, att |-> 0, time |-> 0, cancelled |-> FALSE,
             stale |-> FALSE, n |-> 0,
             form |-> [first_name |-> <<>>, last_name |-> <<>>, phone |-> <<>>],
             list |-> <<>>]

Mine(s) == { r \in inflight : r.sess = s }

CanIssue(s) == Cardinality(Mine(s)) < MaxInflight

\* two identical calls in flight are kept apart by n
Fresh(infl, r) ==
  [r EXCEPT !.n = CHOOSE k \in 0..Cardinality(infl) :
                     /\ [r EXCEPT !.n = k] \notin infl
                     /\ \A j \in 0..(k - 1) : [r EXCEPT !.n = j] \in infl]

Issue(infl, r) == infl \cup {Fresh(infl, r)}

\* an effect's cleanup: cancelled = true in every earlier run of these kinds
cancelKind(infl, s, kinds) ==
  { IF r.sess = s /\ r.kind \in kinds THEN [r EXCEPT !.cancelled = TRUE] ELSE r :
      r \in infl }

\* bookkeeping for the properties, read by no handler: a newer query of the
\* same search box has started since the call was made
markStale(infl, s, kind) ==
  { IF r.sess = s /\ r.kind = kind THEN [r EXCEPT !.stale = TRUE] ELSE r :
      r \in infl }

\* ------------------------------------------- today/page.tsx: the component
\* CreateGuardianInline as it mounts: initialGuardianState, saving, error
NoInline ==
  [form |-> [first_name |-> <<>>, last_name |-> <<>>, phone |-> <<>>],
   saving |-> FALSE, error |-> NULL]

\* useState of authEmail, authLoading, authError and loggingOut; the page is
\* the route shown until router.replace("/login")
NoAuth ==
  [authEmail |-> NULL, authLoading |-> TRUE, authError |-> NULL,
   loggingOut |-> FALSE, route |-> "today"]

Page(s) ==
  [checkInOpen |-> checkInOpen[s], query |-> query[s], results |-> results[s],
   searching |-> searching[s], searchError |-> searchError[s],
   selectedChild |-> selectedChild[s], guardians |-> guardians[s],
   loadingGuardians |-> loadingGuardians[s], guardianError |-> guardianError[s],
   checkInError |-> checkInError[s], checkingIn |-> checkingIn[s],
   createGuardianOpen |-> createGuardianOpen[s], linkingGuardian |-> linkingGuardian[s],
   inline |-> inline[s],
   serviceSunday |-> serviceSunday[s], checkedIn |-> checkedIn[s],
   loadingToday |-> loadingToday[s], todayError |-> todayError[s],
   auth |-> auth[s],
   checkOutOpen |-> checkOutOpen[s], checkOutTarget |-> checkOutTarget[s],
   checkOutGuardians |-> checkOutGuardians[s],
   loadingCheckOutGuardians |-> loadingCheckOutGuardians[s],
   checkOutError |-> checkOutError[s], checkingOut |-> checkingOut[s],
   createPickupOpen |-> createPickupOpen[s]]

SetPage(s, p) ==
  /\ checkInOpen' = [checkInOpen EXCEPT ![s] = p.checkInOpen]
  /\ query' = [query EXCEPT ![s] = p.query]
  /\ results' = [results EXCEPT ![s] = p.results]
  /\ searching' = [searching EXCEPT ![s] = p.searching]
  /\ searchError' = [searchError EXCEPT ![s] = p.searchError]
  /\ selectedChild' = [selectedChild EXCEPT ![s] = p.selectedChild]
  /\ guardians' = [guardians EXCEPT ![s] = p.guardians]
  /\ loadingGuardians' = [loadingGuardians EXCEPT ![s] = p.loadingGuardians]
  /\ guardianError' = [guardianError EXCEPT ![s] = p.guardianError]
  /\ checkInError' = [checkInError EXCEPT ![s] = p.checkInError]
  /\ checkingIn' = [checkingIn EXCEPT ![s] = p.checkingIn]
  /\ createGuardianOpen' = [createGuardianOpen EXCEPT ![s] = p.createGuardianOpen]
  /\ linkingGuardian' = [linkingGuardian EXCEPT ![s] = p.linkingGuardian]
  /\ inline' = [inline EXCEPT ![s] = IF p.createGuardianOpen \/ p.createPickupOpen
                                       THEN p.inline ELSE NoInline]
  /\ serviceSunday' = [serviceSunday EXCEPT ![s] = p.serviceSunday]
  /\ checkedIn' = [checkedIn EXCEPT ![s] = p.checkedIn]
  /\ loadingToday' = [loadingToday EXCEPT ![s] = p.loadingToday]
  /\ todayError' = [todayError EXCEPT ![s] = p.todayError]
  /\ auth' = [auth EXCEPT ![s] = p.auth]
  /\ checkOutOpen' = [checkOutOpen EXCEPT ![s] = p.checkOutOpen]
  /\ checkOutTarget' = [checkOutTarget EXCEPT ![s] = p.checkOutTarget]
  /\ checkOutGuardians' = [checkOutGuardians EXCEPT ![s] = p.checkOutGuardians]
  /\ loadingCheckOutGuardians' =
       [loadingCheckOutGuardians EXCEPT ![s] = p.loadingCheckOutGuardians]
  /\ checkOutError' = [checkOutError EXCEPT ![s] = p.checkOutError]
  /\ checkingOut' = [checkingOut EXCEPT ![s] = p.checkingOut]
  /\ createPickupOpen' = [createPickupOpen EXCEPT ![s] = p.createPickupOpen]
  /\ UNCHANGED dialogVars

\* the cleanup of the child-search effect: cancelled = true in every earlier run
cancelSearches(infl, s) == cancelKind(infl, s, {"search"})

\* run() without the branch for the closed dialog
searchRunOpenOnly(s, p, infl) ==
  LET q == [p EXCEPT !.searchError = NULL, !.checkInError = NULL]
  IN  IF ~p.checkInOpen \/ p.selectedChild # NoChild
        THEN [page |-> q, inflight |-> infl]
      ELSE IF Len(Trim(p.query)) < 2
        THEN [page |-> [q EXCEPT !.results = {}], inflight |-> infl]
      ELSE [page |-> [q EXCEPT !.searching = TRUE],
            inflight |-> Issue(markStale(infl, s, "search"),
                               [BlankReq EXCEPT !.sess = s, !.kind = "search",
                                                !.term = Trim(p.query)])]

\* the child-search effect's run(), on the state p the render left
searchRun(s, p, infl) ==
  LET q == [p EXCEPT !.searchError = NULL, !.checkInError = NULL]
  IN  IF ~p.checkInOpen
        THEN [page |-> [q EXCEPT !.results = {}, !.selectedChild = NoChild,
                                 !.guardians = {}, !.createGuardianOpen = FALSE],
              inflight |-> infl]
      ELSE IF p.selectedChild # NoChild
        THEN [page |-> q, inflight |-> infl]
      ELSE IF Len(Trim(p.query)) < 2
        THEN [page |-> [q EXCEPT !.results = {}], inflight |-> infl]
      ELSE [page |-> [q EXCEPT !.searching = TRUE],
            inflight |-> Issue(markStale(infl, s, "search"),
                               [BlankReq EXCEPT !.sess = s, !.kind = "search",
                                                !.term = Trim(p.query)])]

\* useEffect(..., [checkInOpen, trimmedQuery, selectedChild]): a render from
\* state `old` to state p runs cleanup and run() when a dependency changed
searchEffect(s, old, p, infl) ==
  IF /\ old.checkInOpen = p.checkInOpen
     /\ Trim(old.query) = Trim(p.query)
     /\ old.selectedChild = p.selectedChild
    THEN [page |-> p, inflight |-> infl]
    ELSE searchRun(s, p, cancelSearches(infl, s))

\* loadToday up to its await
loadTodayStart(s, p, infl, date, cont) ==
  [page |-> [p EXCEPT !.todayError = NULL, !.loadingToday = TRUE],
   inflight |-> Issue(infl, [BlankReq EXCEPT !.sess = s, !.kind = "loadToday",
                                             !.date = date, !.cont = cont])]

\* the terminal whose Manage and create-child dialogs are modelled
Terminal == "s1"

\* every dialog is a full-screen modal overlay (fixed inset-0): what lies
\* below an open dialog is not clickable
NoDialog(s) ==
  /\ ~checkInOpen[s] /\ ~checkOutOpen[s]
  /\ s = Terminal => ~manage.open /\ ~createChild.open

\* -------------------------------------------------- check-in: the workflow
\* "Check In Child"
OpenCheckIn(s) ==
  /\ NoDialog(s)
  /\ CanIssue(s)
  /\ LET e == searchEffect(s, Page(s), [Page(s) EXCEPT !.checkInOpen = TRUE], inflight)
     IN  SetPage(s, e.page) /\ inflight' = e.inflight
  /\ UNCHANGED storeVars

\* CheckInModal onClose (Close, backdrop, Escape)
CloseCheckIn(s) ==
  /\ checkInOpen[s]
  /\ LET p == [Page(s) EXCEPT !.checkInOpen = FALSE, !.selectedChild = NoChild,
                              !.guardians = {}, !.guardianError = NULL,
                              !.checkInError = NULL, !.createGuardianOpen = FALSE]
         e == searchEffect(s, Page(s), p, inflight)
     IN  SetPage(s, e.page) /\ inflight' = e.inflight
  /\ UNCHANGED storeVars

\* onQueryChange = setQuery
SetQuery(s, q) ==
  /\ checkInOpen[s]
  /\ q # query[s]
  /\ CanIssue(s)
  /\ LET e == searchEffect(s, Page(s), [Page(s) EXCEPT !.query = q], inflight)
     IN  SetPage(s, e.page) /\ inflight' = e.inflight
  /\ UNCHANGED storeVars

\* run() after its await without the checks of `cancelled`
searchCommitUnguarded(r, p, tbl, ok) ==
  IF ok THEN [p EXCEPT !.results = searchChildren(tbl, r.term), !.searching = FALSE]
  ELSE [p EXCEPT !.searchError = "error", !.results = {}, !.searching = FALSE]

\* the child search resolves: the rest of run() after its await
searchCommit(r, p, tbl, ok) ==
  IF r.cancelled THEN p
  ELSE IF ok THEN [p EXCEPT !.results = searchChildren(tbl, r.term), !.searching = FALSE]
  ELSE [p EXCEPT !.searchError = "error", !.results = {}, !.searching = FALSE]

SearchDone(s, r, ok) ==
  /\ r \in Mine(s) /\ r.kind = "search"
  /\ SetPage(s, searchCommit(r, Page(s), children_tbl, ok))
  /\ inflight' = inflight \ {r}
  /\ UNCHANGED storeVars

\* loadGuardiansForChild up to its first await
loadGuardiansStart(s, p, infl, c, cont) ==
  [page |-> [p EXCEPT !.guardianError = NULL, !.guardians = {},
                      !.loadingGuardians = TRUE],
   inflight |-> Issue(infl, [BlankReq EXCEPT !.sess = s, !.kind = "ciLinks",
                                             !.child = c, !.cont = cont])]

\* a search result is tapped
startGuardianStep(s, c) ==
  /\ checkInOpen[s] /\ selectedChild[s] = NoChild
  /\ Len(Trim(query[s])) >= 2 /\ ~searching[s] /\ c \in results[s]
  /\ CanIssue(s)
  /\ LET p == [Page(s) EXCEPT !.selectedChild = c, !.checkInError = NULL,
                              !.guardianError = NULL, !.createGuardianOpen = FALSE]
         l == loadGuardiansStart(s, p, inflight, c.id, "start")
         e == searchEffect(s, Page(s), l.page, l.inflight)
     IN  SetPage(s, e.page) /\ inflight' = e.inflight
  /\ UNCHANGED storeVars

\* what follows loadGuardiansForChild in its caller
afterLoadGuardians(p, cont) ==
  IF cont = "link" THEN [p EXCEPT !.linkingGuardian = FALSE] ELSE p

\* the child_guardians select of loadGuardiansForChild resolves
GuardianLinksDone(s, r, ok) ==
  /\ r \in Mine(s) /\ r.kind = "ciLinks"
  /\ LET ids == activeLinkIds(child_guardians, r.child)
     IN  IF ~ok
           THEN /\ SetPage(s, afterLoadGuardians(
                        [Page(s) EXCEPT !.guardianError = "error", !.guardians = {},
                                        !.loadingGuardians = FALSE], r.cont))
                /\ inflight' = inflight \ {r}
         ELSE IF ids = {}
           THEN /\ SetPage(s, afterLoadGuardians(
                        [Page(s) EXCEPT !.guardians = {}, !.loadingGuardians = FALSE],
                        r.cont))
                /\ inflight' = inflight \ {r}
         ELSE /\ SetPage(s, Page(s))
              /\ inflight' = Issue(inflight \ {r},
                                   [r EXCEPT !.kind = "ciGuardians", !.ids = ids, !.n = 0])
  /\ UNCHANGED storeVars

\* the guardians select of loadGuardiansForChild resolves
guardiansCommit(r, p, tbl, ok) ==
  IF ok THEN [p EXCEPT !.guardians = guardiansIn(tbl, r.ids), !.loadingGuardians = FALSE]
  ELSE [p EXCEPT !.guardianError = "error", !.guardians = {}, !.loadingGuardians = FALSE]

GuardiansDone(s, r, ok) ==
  /\ r \in Mine(s) /\ r.kind = "ciGuardians"
  /\ SetPage(s, afterLoadGuardians(guardiansCommit(r, Page(s), guardians_tbl, ok), r.cont))
  /\ inflight' = inflight \ {r}
  /\ UNCHANGED storeVars

\* "Back" of the guardian step
Back(s) ==
  /\ checkInOpen[s] /\ selectedChild[s] # NoChild
  /\ ~checkingIn[s] /\ ~linkingGuardian[s]
  /\ CanIssue(s)
  /\ LET p == [Page(s) EXCEPT !.selectedChild = NoChild, !.guardians = {},
                              !.guardianError = NULL, !.checkInError = NULL,
                              !.createGuardianOpen = FALSE]
         e == searchEffect(s, Page(s), p, inflight)
     IN  SetPage(s, e.page) /\ inflight' = e.inflight
  /\ UNCHANGED storeVars

\* a CreateGuardianInline of the page is mounted or unmounted: a handleCreate
\* of an earlier mount that is still on its way runs on without a component
inlineGone(infl, s) ==
  { IF r.sess = s /\ r.kind \in {"ciGuardianInsert", "coGuardianInsert"}
      THEN [r EXCEPT !.cont = "inlineGone"] ELSE r : r \in infl }

\* "Create guardian" / "Close" of the guardian step
ToggleCreateGuardian(s) ==
  /\ checkInOpen[s] /\ selectedChild[s] # NoChild
  /\ ~checkingIn[s] /\ ~linkingGuardian[s]
  /\ SetPage(s, [Page(s) EXCEPT !.createGuardianOpen = ~createGuardianOpen[s],
                                !.inline = NoInline])
  /\ inflight' = inlineGone(inflight, s)
  /\ UNCHANGED storeVars

\* a guardian of the list is tapped: completeCheckIn up to its await
completeCheckIn(s, g) ==
  /\ checkInOpen[s] /\ selectedChild[s] # NoChild
  /\ ~loadingGuardians[s] /\ g \in guardians[s]
  /\ ~checkingIn[s] /\ ~linkingGuardian[s]
  /\ CanIssue(s)
  /\ SetPage(s, [Page(s) EXCEPT !.checkInError = NULL, !.checkingIn = TRUE])
  /\ inflight' = Issue(inflight,
       [BlankReq EXCEPT !.sess = s, !.kind = "insertAttendance",
                        !.child = selectedChild[s].id, !.dob = selectedChild[s].dob,
                        !.guardian = g, !.date = serviceSunday[s], !.time = now])
  /\ UNCHANGED storeVars

\* the row completeCheckIn inserts
newAttendance(r) ==
  [child_id |-> r.child, service_date |-> r.date,
   group_key |-> groupKeyForAgeOnJune30(ageOnJune30ThisYear(r.dob)),
   check_in_time |-> r.time, checked_in_by_guardian_id |-> r.guardian,
   check_out_time |-> 0, checked_out_by_guardian_id |-> NULL]

\* the store's insert into attendance
insertAttendance(att, r) == Append(att, newAttendance(r))

\* the insert of completeCheckIn resolves; on success loadToday starts
CheckInInserted(s, r, ok) ==
  /\ r \in Mine(s) /\ r.kind = "insertAttendance"
  /\ IF ok
       THEN /\ Len(attendance) < MaxAttendance
            /\ attendance' = insertAttendance(attendance, r)
            /\ LET l == loadTodayStart(s, Page(s), inflight \ {r}, r.date, "checkin")
               IN  SetPage(s, l.page) /\ inflight' = l.inflight
       ELSE /\ attendance' = attendance
            /\ SetPage(s, [Page(s) EXCEPT !.checkInError = "error", !.checkingIn = FALSE])
            /\ inflight' = inflight \ {r}
  /\ UNCHANGED <<children_tbl, guardians_tbl, child_guardians, now, env>>

\* ------------------------------------------------------ roster and dates
\* a continuation that closes the dialog and keeps the selection
afterCheckInKeepsSelection(p) ==
  [p EXCEPT !.checkInOpen = FALSE, !.checkingIn = FALSE]

\* the rest of completeCheckIn after its await of loadToday
afterCheckIn(p) ==
  [p EXCEPT !.checkInOpen = FALSE, !.query = <<>>, !.results = {},
            !.selectedChild = NoChild, !.guardians = {},
            !.createGuardianOpen = FALSE, !.checkingIn = FALSE]

\* the rest of completeCheckOut after its await of loadToday
afterCheckOut(p) ==
  [p EXCEPT !.checkOutOpen = FALSE, !.checkOutTarget = NoRow,
            !.checkOutGuardians = {}, !.createPickupOpen = FALSE,
            !.checkingOut = FALSE]

\* loadToday after its await: the roster is replaced by what the select returned
todayCommit(r, p, att, tbl, ok) ==
  IF ok THEN [p EXCEPT !.checkedIn = rosterRows(att, tbl, r.date), !.loadingToday = FALSE]
  ELSE [p EXCEPT !.todayError = "error", !.checkedIn = <<>>, !.loadingToday = FALSE]

TodayLoaded(s, r, ok) ==
  /\ r \in Mine(s) /\ r.kind = "loadToday"
  /\ LET p1 == todayCommit(r, Page(s), attendance, children_tbl, ok)
         p2 == IF r.cont = "checkin" THEN afterCheckIn(p1)
               ELSE IF r.cont = "checkout" THEN afterCheckOut(p1)
               ELSE p1
         e  == searchEffect(s, Page(s), p2, inflight \ {r})
     IN  SetPage(s, e.page) /\ inflight' = e.inflight
  /\ UNCHANGED storeVars

\* the arrows of the date picker; the effect on serviceDateISO re-fetches
\* the date picker moving by single days
stepSundayByDay(s, direction) ==
  /\ NoDialog(s)
  /\ CanIssue(s)
  /\ LET delta == IF direction = "prev" THEN -1 ELSE 1
         d     == addDays(serviceSunday[s], delta)
         l     == loadTodayStart(s, [Page(s) EXCEPT !.serviceSunday = d], inflight, d, "none")
     IN  /\ d >= nextOrSameSunday(env.today) - 7 * MaxSteps
         /\ d <= nextOrSameSunday(env.today) + 7 * MaxSteps
         /\ SetPage(s, l.page) /\ inflight' = l.inflight
  /\ UNCHANGED storeVars

stepSunday(s, direction) ==
  /\ NoDialog(s)
  /\ CanIssue(s)
  /\ LET delta == IF direction = "prev" THEN -7 ELSE 7
         d     == addDays(serviceSunday[s], delta)
         l     == loadTodayStart(s, [Page(s) EXCEPT !.serviceSunday = d], inflight, d, "none")
     IN  /\ d >= nextOrSameSunday(env.today) - 7 * MaxSteps
         /\ d <= nextOrSameSunday(env.today) + 7 * MaxSteps
         /\ SetPage(s, l.page) /\ inflight' = l.inflight
  /\ UNCHANGED storeVars

\* ------------------------------------------------------------- checkout
\* loadCheckoutGuardiansForChild up to its first await
loadCheckoutGuardiansStart(s, p, infl, c, cont) ==
  [page |-> [p EXCEPT !.checkOutError = NULL, !.checkOutGuardians = {},
                      !.loadingCheckOutGuardians = TRUE],
   inflight |-> Issue(infl, [BlankReq EXCEPT !.sess = s, !.kind = "coLinks",
                                             !.child = c, !.cont = cont])]

\* "Check out" on an open roster row; the button is rendered with the row,
\* in the section of its bucket
openCheckout(s, k) ==
  /\ NoDialog(s)
  /\ ~loadingToday[s]
  /\ k \in 1..Len(checkedIn[s]) /\ IsOpen(checkedIn[s][k])
  /\ checkedIn[s][k].group_key \in DOMAIN grouped(checkedIn[s])
  /\ CanIssue(s)
  /\ LET row == checkedIn[s][k]
         p   == [Page(s) EXCEPT !.checkOutError = NULL, !.createPickupOpen = FALSE,
                                !.checkOutTarget = row, !.checkOutOpen = TRUE]
         l   == loadCheckoutGuardiansStart(s, p, inflight, row.child_id, "start")
     IN  SetPage(s, l.page) /\ inflight' = l.inflight
  /\ UNCHANGED storeVars

\* CheckOutModal onClose
CloseCheckout(s) ==
  /\ checkOutOpen[s]
  /\ SetPage(s, [Page(s) EXCEPT !.checkOutOpen = FALSE, !.checkOutTarget = NoRow,
                                !.checkOutGuardians = {}, !.checkOutError = NULL,
                                !.createPickupOpen = FALSE])
  /\ UNCHANGED <<storeVars, inflight>>

\* the child_guardians select of loadCheckoutGuardiansForChild resolves
CheckoutLinksDone(s, r, ok) ==
  /\ r \in Mine(s) /\ r.kind = "coLinks"
  /\ LET ids == activeLinkIds(child_guardians, r.child)
     IN  IF ~ok
           THEN /\ SetPage(s, afterLoadGuardians(
                        [Page(s) EXCEPT !.checkOutError = "error",
                                        !.checkOutGuardians = {},
                                        !.loadingCheckOutGuardians = FALSE], r.cont))
                /\ inflight' = inflight \ {r}
         ELSE IF ids = {}
           THEN /\ SetPage(s, afterLoadGuardians(
                        [Page(s) EXCEPT !.checkOutGuardians = {},
                                        !.loadingCheckOutGuardians = FALSE], r.cont))
                /\ inflight' = inflight \ {r}
         ELSE /\ SetPage(s, Page(s))
              /\ inflight' = Issue(inflight \ {r},
                                   [r EXCEPT !.kind = "coGuardians", !.ids = ids, !.n = 0])
  /\ UNCHANGED storeVars

\* the guardians select of loadCheckoutGuardiansForChild resolves
checkoutGuardiansCommit(r, p, tbl, ok) ==
  IF ok THEN [p EXCEPT !.checkOutGuardians = guardiansIn(tbl, r.ids),
                       !.loadingCheckOutGuardians = FALSE]
  ELSE [p EXCEPT !.checkOutError = "error", !.checkOutGuardians = {},
                 !.loadingCheckOutGuardians = FALSE]

CheckoutGuardiansDone(s, r, ok) ==
  /\ r \in Mine(s) /\ r.kind = "coGuardians"
  /\ SetPage(s, afterLoadGuardians(
                  checkoutGuardiansCommit(r, Page(s), guardians_tbl, ok), r.cont))
  /\ inflight' = inflight \ {r}
  /\ UNCHANGED storeVars

\* a guardian of the checkout list is tapped: completeCheckOut up to its await
completeCheckOut(s, g) ==
  /\ checkOutOpen[s] /\ checkOutTarget[s] # NoRow
  /\ ~loadingCheckOutGuardians[s] /\ g \in checkOutGuardians[s]
  /\ ~checkingOut[s] /\ ~linkingGuardian[s]
  /\ CanIssue(s)
  /\ SetPage(s, [Page(s) EXCEPT !.checkOutError = NULL, !.checkingOut = TRUE])
  /\ inflight' = Issue(inflight,
       [BlankReq EXCEPT !.sess = s, !.kind = "updateAttendance",
                        !.att = checkOutTarget[s].attendance_id, !.guardian = g,
                        !.date = serviceSunday[s], !.time = now])
  /\ UNCHANGED storeVars

\* a checkout that removes the attendance row
deleteAttendance(att, r) ==
  [i \in 1..(Len(att) - 1) |-> IF i < r.att THEN att[i] ELSE att[i + 1]]

\* the store's update of attendance: .update({...}).eq("id", attendance_id)
updateAttendance(att, r) ==
  [att EXCEPT ![r.att] = [@ EXCEPT !.check_out_time = r.time,
                                   !.checked_out_by_guardian_id = r.guardian]]

\* the update of completeCheckOut resolves; on success loadToday starts
CheckOutUpdated(s, r, ok) ==
  /\ r \in Mine(s) /\ r.kind = "updateAttendance"
  /\ IF ok
       THEN /\ attendance' = updateAttendance(attendance, r)
            /\ LET l == loadTodayStart(s, Page(s), inflight \ {r}, r.date, "checkout")
               IN  SetPage(s, l.page) /\ inflight' = l.inflight
       ELSE /\ attendance' = attendance
            /\ SetPage(s, [Page(s) EXCEPT !.checkOutError = "error", !.checkingOut = FALSE])
            /\ inflight' = inflight \ {r}
  /\ UNCHANGED <<children_tbl, guardians_tbl, child_guardians, now, env>>

\* ---------------------------------------- the dialogs as they are mounted
NoEditChild ==
  [loading |-> FALSE, error |-> NULL, linking |-> FALSE, linkedGuardians |-> {},
   loadingGuardians |-> FALSE, guardianError |-> NULL, search |-> <<>>,
   searching |-> FALSE, searchResults |-> {}, searchError |-> NULL,
   createGuardianOpen |-> FALSE, inline |-> NoInline]

NoCreateChild ==
  [open |-> FALSE, saving |-> FALSE, error |-> NULL,
   form |-> [first_name |-> <<>>, last_name |-> <<>>, dob |-> NoDob],
   linkedGuardians |-> <<>>,
   loadingGuardians |-> FALSE, guardianError |-> NULL, search |-> <<>>,
   searching |-> FALSE, searchResults |-> {}, searchError |-> NULL,
   createGuardianOpen |-> FALSE]

\* ------------------------------------------------------ ManageModal.tsx
\* EditGuardianModal (in CreateGuardianInline.tsx) as it mounts; id is the
\* editGuardianId of the Manage dialog
NoEditGuardian ==
  [id |-> NULL, form |-> [first_name |-> <<>>, last_name |-> <<>>, phone |-> <<>>],
   loading |-> FALSE, saving |-> FALSE, error |-> NULL]

NoManage ==
  [open |-> FALSE, tab |-> "children", childQuery |-> <<>>, guardianQuery |-> <<>>,
   childResults |-> {}, guardianResults |-> {}, loading |-> FALSE, error |-> NULL,
   editChildId |-> NULL, editGuardian |-> NoEditGuardian]

\* the store calls of the dialogs below the Manage dialog
EditKinds == {"editLoad", "editLinks", "editGuardians", "editSearch", "editUnlink",
              "editLinkSelect", "editLinkUpdate", "editLinkInsert",
              "guardianInsert", "inlineLink", "guardianLoad", "guardianUpdate"}

\* the store calls of the edit-child dialog that belong to a write: the
\* handler that sent them runs on after the dialog is unmounted
EditWrites == {"editUnlink", "editLinkSelect", "editLinkUpdate", "editLinkInsert",
               "guardianInsert", "inlineLink", "guardianUpdate"}

\* how many more store calls the terminal may have in flight
Room(k) == Cardinality(Mine(Terminal)) + k <= MaxInflight

\* runChildrenSearch(query) up to its await
runChildrenSearch(m, infl, q) ==
  LET m1 == [m EXCEPT !.error = NULL]
  IN  IF Len(Trim(q)) < 2
        THEN [dlg |-> [m1 EXCEPT !.childResults = {}], inflight |-> infl]
        ELSE [dlg |-> [m1 EXCEPT !.loading = TRUE],
              inflight |-> Issue(markStale(infl, Terminal, "manageChildren"),
                                 [BlankReq EXCEPT !.sess = Terminal,
                                                  !.kind = "manageChildren",
                                                  !.term = Trim(q)])]

\* runGuardiansSearch(query) up to its await
runGuardiansSearch(m, infl, q) ==
  LET m1 == [m EXCEPT !.error = NULL]
  IN  IF Len(Trim(q)) < 2
        THEN [dlg |-> [m1 EXCEPT !.guardianResults = {}], inflight |-> infl]
        ELSE [dlg |-> [m1 EXCEPT !.loading = TRUE],
              inflight |-> Issue(markStale(infl, Terminal, "manageGuardians"),
                                 [BlankReq EXCEPT !.sess = Terminal,
                                                  !.kind = "manageGuardians",
                                                  !.term = Trim(q)])]

\* run() of the children effect, for a render that shows open, tab and q
childrenRun(open, tab, q, m, infl) ==
  IF ~open \/ tab # "children" THEN [dlg |-> m, inflight |-> infl]
  ELSE runChildrenSearch(m, infl, q)

\* run() of the guardians effect, for a render that shows open, tab and q
guardiansRun(open, tab, q, m, infl) ==
  IF ~open \/ tab # "guardians" THEN [dlg |-> m, inflight |-> infl]
  ELSE runGuardiansSearch(m, infl, q)

\* the two search effects after a render from state `old` to state m: each
\* runs its cleanup and its run() when one of its dependencies changed
manageEffects(old, m, infl) ==
  LET c == IF /\ old.open = m.open /\ old.tab = m.tab
              /\ Trim(old.childQuery) = Trim(m.childQuery)
             THEN [dlg |-> m, inflight |-> infl]
             ELSE childrenRun(m.open, m.tab, Trim(m.childQuery), m,
                              cancelKind(infl, Terminal, {"manageChildren"}))
  IN  IF /\ old.open = m.open /\ old.tab = m.tab
         /\ Trim(old.guardianQuery) = Trim(m.guardianQuery)
        THEN c
        ELSE guardiansRun(m.open, m.tab, Trim(m.guardianQuery), c.dlg,
                          cancelKind(c.inflight, Terminal, {"manageGuardians"}))

\* the host sets open: the reset effect and both search effects run on the
\* render that still shows the tab and the queries of the last opening, then
\* the effects run again on the state the reset left
OpenManage ==
  /\ NoDialog(Terminal)
  /\ Room(1)
  /\ LET shown == [manage EXCEPT !.open = TRUE]
         reset == [shown EXCEPT !.tab = "children", !.childQuery = <<>>,
                                !.guardianQuery = <<>>, !.childResults = {},
                                !.guardianResults = {}, !.error = NULL,
                                !.loading = FALSE, !.editChildId = NULL]
         c == childrenRun(TRUE, shown.tab, Trim(shown.childQuery), reset,
                          cancelKind(inflight, Terminal,
                                     {"manageChildren", "manageGuardians"}))
         g == guardiansRun(TRUE, shown.tab, Trim(shown.guardianQuery), c.dlg, c.inflight)
         e == manageEffects(shown, g.dlg, g.inflight)
     IN  manage' = e.dlg /\ inflight' = e.inflight
  /\ UNCHANGED <<storeVars, pageVars, editChild, createChild>>

\* the edit-child dialog is unmounted: its reads are dropped with it, a write
\* it had sent still reaches the store
unmountEditChild(infl) ==
  { IF r.kind \in EditWrites THEN [r EXCEPT !.cont = "unmounted"] ELSE r :
      r \in { x \in infl : ~(x.sess = Terminal /\ x.kind \in EditKinds
                                               /\ x.kind \notin EditWrites) } }

\* handleClose (Close, Done, Escape): the host clears open; ManageModal then
\* renders null, which unmounts the edit-child dialog
CloseManage ==
  /\ manage.open
  /\ LET m == [manage EXCEPT !.open = FALSE, !.editChildId = NULL,
                             !.editGuardian = NoEditGuardian]
         e == manageEffects(manage, m, unmountEditChild(inflight))
     IN  manage' = e.dlg /\ inflight' = e.inflight
  /\ editChild' = NoEditChild
  /\ UNCHANGED <<storeVars, pageVars, createChild>>

\* the tab buttons
setTab(t) ==
  /\ manage.open /\ manage.editChildId = NULL /\ manage.editGuardian.id = NULL
  /\ t # manage.tab
  /\ Room(1)
  /\ LET e == manageEffects(manage, [manage EXCEPT !.tab = t], inflight)
     IN  manage' = e.dlg /\ inflight' = e.inflight
  /\ UNCHANGED <<storeVars, pageVars, editChild, createChild>>

\* the query input: setActiveQuery
setActiveQuery(q) ==
  /\ manage.open /\ manage.editChildId = NULL /\ manage.editGuardian.id = NULL
  /\ q # (IF manage.tab = "children" THEN manage.childQuery ELSE manage.guardianQuery)
  /\ Room(1)
  /\ LET m == IF manage.tab = "children" THEN [manage EXCEPT !.childQuery = q]
              ELSE [manage EXCEPT !.guardianQuery = q]
         e == manageEffects(manage, m, inflight)
     IN  manage' = e.dlg /\ inflight' = e.inflight
  /\ UNCHANGED <<storeVars, pageVars, editChild, createChild>>

\* the rest of runChildrenSearch after its await
childrenCommit(r, m, tbl, ok) ==
  IF ok THEN [m EXCEPT !.childResults = searchChildren(tbl, r.term), !.loading = FALSE]
  ELSE [m EXCEPT !.error = "error", !.childResults = {}, !.loading = FALSE]

ManageChildrenDone(r, ok) ==
  /\ r \in Mine(Terminal) /\ r.kind = "manageChildren"
  /\ manage' = childrenCommit(r, manage, children_tbl, ok)
  /\ inflight' = inflight \ {r}
  /\ UNCHANGED <<storeVars, pageVars, editChild, createChild>>

\* the rest of runGuardiansSearch after its await
guardiansSearchCommit(r, m, tbl, ok) ==
  IF ok THEN [m EXCEPT !.guardianResults = guardiansMatching(tbl, r.term),
                       !.loading = FALSE]
  ELSE [m EXCEPT !.error = "error", !.guardianResults = {}, !.loading = FALSE]

ManageGuardiansDone(r, ok) ==
  /\ r \in Mine(Terminal) /\ r.kind = "manageGuardians"
  /\ manage' = guardiansSearchCommit(r, manage, guardians_tbl, ok)
  /\ inflight' = inflight \ {r}
  /\ UNCHANGED <<storeVars, pageVars, editChild, createChild>>

\* --------------------------------------------------- EditChildModal.tsx
\* open is !!editChildId and childId is editChildId of the Manage dialog
\* runSearch up to its await, for a render that shows childId, the trimmed
\* search term and the linked guardians
runSearch(childId, term, linked, e, infl) ==
  LET e1 == [e EXCEPT !.searchError = NULL, !.searchResults = {}]
  IN  IF childId = NULL \/ Len(term) < 2
        THEN [dlg |-> e1, inflight |-> infl]
        ELSE [dlg |-> [e1 EXCEPT !.searching = TRUE],
              inflight |-> Issue(markStale(infl, Terminal, "editSearch"),
                                 [BlankReq EXCEPT !.sess = Terminal,
                                                  !.kind = "editSearch",
                                                  !.term = term, !.ids = linked])]

\* the runSearch effect after a render that changed one of
\* [open, childId, trimmedSearch, linkedGuardians]: cleanup, then runSearch
runSearchEffect(childId, e, infl) ==
  runSearch(childId, Trim(e.search), e.linkedGuardians, e,
            cancelKind(infl, Terminal, {"editSearch"}))

\* loadLinkedGuardians up to its first await; setLinkedGuardians([]) stores
\* a new array, so the runSearch effect runs again
loadLinkedGuardians(childId, e, infl, forChildId, cont) ==
  runSearchEffect(childId,
                  [e EXCEPT !.guardianError = NULL, !.linkedGuardians = {},
                            !.loadingGuardians = TRUE],
                  Issue(infl, [BlankReq EXCEPT !.sess = Terminal, !.kind = "editLinks",
                                               !.child = forChildId, !.cont = cont]))

\* the cleanup of the load effect: cancelled = true in the run that is on
\* its way, wherever it is
cancelLoad(infl) ==
  { IF /\ r.sess = Terminal
       /\ \/ r.kind = "editLoad"
          \/ (r.kind \in {"editLinks", "editGuardians"} /\ r.cont = "load")
      THEN [r EXCEPT !.cancelled = TRUE] ELSE r : r \in infl }

\* CreateGuardianInline is unmounted: the handleCreate on its way runs on
unmountInline(infl) ==
  { IF r.kind = "guardianInsert" /\ r.cont = "inline"
      THEN [r EXCEPT !.cont = "inlineGone"] ELSE r : r \in infl }

\* "Edit" on a row of the children results: setEditChildId. The load effect
\* runs up to its await and the runSearch effect runs on the render that
\* still shows the search term of the last edit; load's setSearch("") makes
\* it run again when that term was not empty
openEditChild(c) ==
  /\ manage.open /\ manage.editChildId = NULL /\ manage.editGuardian.id = NULL
  /\ manage.tab = "children" /\ ~manage.loading /\ c \in manage.childResults
  /\ Room(2)
  /\ LET e1 == [editChild EXCEPT !.error = NULL, !.guardianError = NULL,
                                 !.searchError = NULL, !.searchResults = {},
                                 !.search = <<>>, !.createGuardianOpen = FALSE,
                                 !.inline = NoInline, !.loading = TRUE]
         i1 == Issue(inflight, [BlankReq EXCEPT !.sess = Terminal, !.kind = "editLoad",
                                                !.child = c.id])
         r1 == runSearch(c.id, Trim(editChild.search), editChild.linkedGuardians,
                         e1, cancelKind(i1, Terminal, {"editSearch"}))
         r2 == IF Trim(editChild.search) = <<>> THEN r1
               ELSE runSearchEffect(c.id, r1.dlg, r1.inflight)
     IN  editChild' = r2.dlg /\ inflight' = r2.inflight
  /\ manage' = [manage EXCEPT !.editChildId = c.id]
  /\ UNCHANGED <<storeVars, pageVars, createChild>>

\* EditChildModal onClose: setEditChildId(null); both effects clean up and run
closeEditChild ==
  /\ manage.open /\ manage.editChildId # NULL
  /\ LET r == runSearchEffect(NULL, [editChild EXCEPT !.inline = NoInline],
                              unmountInline(cancelLoad(inflight)))
     IN  editChild' = r.dlg /\ inflight' = r.inflight
  /\ manage' = [manage EXCEPT !.editChildId = NULL]
  /\ UNCHANGED <<storeVars, pageVars, createChild>>

\* what follows loadLinkedGuardians in its caller
afterLoadLinked(e, r) ==
  IF r.cont = "load" THEN (IF r.cancelled THEN e ELSE [e EXCEPT !.loading = FALSE])
  ELSE IF r.cont = "link"
    THEN [e EXCEPT !.search = <<>>, !.searchResults = {}, !.linking = FALSE]
  ELSE [e EXCEPT !.linking = FALSE]

\* the children select of load() resolves
EditChildLoaded(r, ok) ==
  /\ r \in Mine(Terminal) /\ r.kind = "editLoad"
  /\ Room(1)
  /\ IF r.cancelled
       THEN editChild' = editChild /\ inflight' = inflight \ {r}
     ELSE IF ~ok
       THEN /\ editChild' = [editChild EXCEPT !.error = "error", !.loading = FALSE]
            /\ inflight' = inflight \ {r}
     ELSE LET l == loadLinkedGuardians(manage.editChildId, editChild, inflight \ {r},
                                       r.child, "load")
          IN  editChild' = l.dlg /\ inflight' = l.inflight
  /\ UNCHANGED <<storeVars, pageVars, manage, createChild>>

\* the child_guardians select of loadLinkedGuardians resolves
EditLinksDone(r, ok) ==
  /\ r \in Mine(Terminal) /\ r.kind = "editLinks"
  /\ LET ids == linkIdsNotInactive(child_guardians, r.child)
     IN  IF ~ok \/ ids = {}
           THEN LET e1 == [editChild EXCEPT
                             !.guardianError = IF ok THEN @ ELSE "error",
                             !.linkedGuardians = {}, !.loadingGuardians = FALSE]
                    s  == runSearchEffect(manage.editChildId, afterLoadLinked(e1, r),
                                          inflight \ {r})
                IN  editChild' = s.dlg /\ inflight' = s.inflight
           ELSE /\ editChild' = editChild
                /\ inflight' = Issue(inflight \ {r},
                                     [r EXCEPT !.kind = "editGuardians", !.ids = ids,
                                               !.n = 0])
  /\ UNCHANGED <<storeVars, pageVars, manage, createChild>>

\* the guardians select of loadLinkedGuardians resolves
linkedGuardiansCommit(r, e, tbl, ok) ==
  IF ok THEN [e EXCEPT !.linkedGuardians = guardiansIn(tbl, r.ids),
                       !.loadingGuardians = FALSE]
  ELSE [e EXCEPT !.guardianError = "error", !.linkedGuardians = {},
                 !.loadingGuardians = FALSE]

EditGuardiansDone(r, ok) ==
  /\ r \in Mine(Terminal) /\ r.kind = "editGuardians"
  /\ LET e1 == afterLoadLinked(linkedGuardiansCommit(r, editChild, guardians_tbl, ok), r)
         s  == runSearchEffect(manage.editChildId, e1, inflight \ {r})
     IN  editChild' = s.dlg /\ inflight' = s.inflight
  /\ UNCHANGED <<storeVars, pageVars, manage, createChild>>

\* the search input of the form
setSearch(q) ==
  /\ manage.editChildId # NULL /\ ~editChild.loading
  /\ q # editChild.search
  /\ Room(1)
  /\ LET e1 == [editChild EXCEPT !.search = q]
         s  == IF Trim(q) = Trim(editChild.search)
                 THEN [dlg |-> e1, inflight |-> inflight]
                 ELSE runSearchEffect(manage.editChildId, e1, inflight)
     IN  editChild' = s.dlg /\ inflight' = s.inflight
  /\ UNCHANGED <<storeVars, pageVars, manage, createChild>>

\* the rest of runSearch after its await
runSearchCommit(r, e, tbl, ok) ==
  IF r.cancelled THEN e
  ELSE IF ok THEN [e EXCEPT !.searchResults = guardiansMatching(tbl, r.term) \ r.ids,
                            !.searching = FALSE]
  ELSE [e EXCEPT !.searchError = "error", !.searchResults = {}, !.searching = FALSE]

EditSearchDone(r, ok) ==
  /\ r \in Mine(Terminal) /\ r.kind = "editSearch"
  /\ editChild' = runSearchCommit(r, editChild, guardians_tbl, ok)
  /\ inflight' = inflight \ {r}
  /\ UNCHANGED <<storeVars, pageVars, manage, createChild>>

\* "Unlink" on a linked guardian: unlinkGuardian up to its await
unlinkGuardian(g) ==
  /\ manage.editChildId # NULL /\ ~editChild.loading
  /\ ~editChild.loadingGuardians /\ g \in editChild.linkedGuardians
  /\ ~editChild.linking
  /\ Room(1)
  /\ editChild' = [editChild EXCEPT !.guardianError = NULL, !.linking = TRUE]
  /\ inflight' = Issue(inflight, [BlankReq EXCEPT !.sess = Terminal,
                                                  !.kind = "editUnlink",
                                                  !.child = manage.editChildId,
                                                  !.guardian = g, !.cont = "unlink"])
  /\ UNCHANGED <<storeVars, pageVars, manage, createChild>>

\* the update of unlinkGuardian resolves; on success loadLinkedGuardians starts
EditUnlinked(r, ok) ==
  /\ r \in Mine(Terminal) /\ r.kind = "editUnlink"
  /\ Room(1)
  /\ child_guardians' = IF ok THEN deactivateLink(child_guardians, r.child, r.guardian)
                        ELSE child_guardians
  /\ IF r.cont = "unmounted"
       THEN editChild' = editChild /\ inflight' = inflight \ {r}
     ELSE IF ~ok
       THEN /\ editChild' = [editChild EXCEPT !.guardianError = "error",
                                              !.linking = FALSE]
            /\ inflight' = inflight \ {r}
     ELSE LET l == loadLinkedGuardians(manage.editChildId, editChild, inflight \ {r},
                                       r.child, "unlink")
          IN  editChild' = l.dlg /\ inflight' = l.inflight
  /\ UNCHANGED <<children_tbl, guardians_tbl, attendance, now, env, pageVars, manage,
                 createChild>>

\* a search result is tapped: linkGuardian up to its first await
linkGuardian(g) ==
  /\ manage.editChildId # NULL /\ ~editChild.loading
  /\ ~editChild.searching /\ g \in editChild.searchResults
  /\ ~editChild.linking
  /\ Room(1)
  /\ editChild' = [editChild EXCEPT !.guardianError = NULL, !.linking = TRUE]
  /\ inflight' = Issue(inflight, [BlankReq EXCEPT !.sess = Terminal,
                                                  !.kind = "editLinkSelect",
                                                  !.child = manage.editChildId,
                                                  !.guardian = g, !.cont = "link"])
  /\ UNCHANGED <<storeVars, pageVars, manage, createChild>>

\* the same tap in the edit-child dialog of another terminal, for a child
\* and a guardian its search shows (an active guardian its list lacks)
linkGuardianElsewhere(c, g) ==
  /\ Cardinality(Mine("s2")) < 1
  /\ children_tbl[c].active = "true" /\ guardians_tbl[g].active = "true"
  /\ inflight' = Issue(inflight, [BlankReq EXCEPT !.sess = "s2",
                                                  !.kind = "editLinkSelect",
                                                  !.child = c, !.guardian = g,
                                                  !.cont = "unmounted"])
  /\ UNCHANGED <<storeVars, pageVars, dialogVars>>

\* the maybeSingle() select of linkGuardian resolves: more than one row is an
\* error; a row found sends the update, none the insert
EditLinkSelected(r, ok) ==
  /\ r \in inflight /\ r.kind = "editLinkSelect"
  /\ LET rows == linkRows(child_guardians, r.child, r.guardian)
     IN  IF ok /\ Cardinality(rows) <= 1
           THEN /\ inflight' = Issue(inflight \ {r},
                                     [r EXCEPT !.kind = IF rows = {} THEN "editLinkInsert"
                                                        ELSE "editLinkUpdate",
                                               !.n = 0])
                /\ editChild' = editChild
           ELSE /\ inflight' = inflight \ {r}
                /\ editChild' = IF r.cont = "unmounted" THEN editChild
                                ELSE [editChild EXCEPT !.guardianError = "error",
                                                       !.linking = FALSE]
  /\ UNCHANGED <<storeVars, pageVars, manage, createChild>>

\* the update or the insert of linkGuardian resolves; on success
\* loadLinkedGuardians starts
EditLinkWritten(r, ok) ==
  /\ r \in inflight /\ r.kind \in {"editLinkUpdate", "editLinkInsert"}
  /\ r.sess = Terminal => Room(1)
  /\ (ok /\ r.kind = "editLinkInsert") => Len(child_guardians) < MaxLinks
  /\ child_guardians' =
       IF ~ok THEN child_guardians
       ELSE IF r.kind = "editLinkUpdate"
         THEN activateLink(child_guardians, r.child, r.guardian)
       ELSE insertLink(child_guardians, r.child, r.guardian)
  /\ IF r.cont = "unmounted"
       THEN editChild' = editChild /\ inflight' = inflight \ {r}
     ELSE IF ~ok
       THEN /\ editChild' = [editChild EXCEPT !.guardianError = "error",
                                              !.linking = FALSE]
            /\ inflight' = inflight \ {r}
     ELSE LET l == loadLinkedGuardians(manage.editChildId, editChild, inflight \ {r},
                                       r.child, "link")
          IN  editChild' = l.dlg /\ inflight' = l.inflight
  /\ UNCHANGED <<children_tbl, guardians_tbl, attendance, now, env, pageVars, manage,
                 createChild>>

\* ------------------------- CreateGuardianInline.tsx, in the edit-child form
\* the forms the user may have typed
FormInputs ==
  { [first_name |-> <<"A", "n", "a">>, last_name |-> <<"L", "e", "e">>,
     phone |-> <<"0", "4">>],
    [first_name |-> <<" ", "A", "n", "a">>, last_name |-> <<"L", "e", "e", " ">>,
     phone |-> <<"0", "4", " ">>],
    [first_name |-> <<"B", "o", "b">>, last_name |-> <<"L", "e", "e">>,
     phone |-> <<"0", "5">>],
    [first_name |-> <<" ">>, last_name |-> <<"L", "e", "e">>, phone |-> <<"0", "4">>],
    [first_name |-> <<"B", "o", "b">>, last_name |-> <<"L", "e", "e">>,
     phone |-> <<" ">>] }

\* a Create button that is never disabled by the form
canCreateAlways(f) == TRUE

\* canCreate: the Create button is disabled without it
canCreate(f) == Len(Trim(f.first_name)) > 0 /\ Len(Trim(f.phone)) > 0

\* the "Create guardian" / "Close" button of the form: CreateGuardianInline
\* mounts or unmounts
toggleCreateGuardian ==
  /\ manage.editChildId # NULL /\ ~editChild.loading /\ ~editChild.linking
  /\ editChild' = [editChild EXCEPT !.createGuardianOpen = ~@, !.inline = NoInline]
  /\ inflight' = unmountInline(inflight)
  /\ UNCHANGED <<storeVars, pageVars, manage, createChild>>

\* the inputs of CreateGuardianInline
setForm(f) ==
  /\ manage.editChildId # NULL /\ ~editChild.loading
  /\ editChild.createGuardianOpen /\ ~editChild.linking /\ ~editChild.inline.saving
  /\ f # editChild.inline.form
  /\ editChild' = [editChild EXCEPT !.inline.form = f]
  /\ UNCHANGED <<storeVars, inflight, pageVars, manage, createChild>>

\* "Create guardian": handleCreate up to its await
handleCreate ==
  /\ manage.editChildId # NULL /\ ~editChild.loading
  /\ editChild.createGuardianOpen
  /\ canCreate(editChild.inline.form) /\ ~editChild.inline.saving /\ ~editChild.linking
  /\ Room(1)
  /\ LET f == editChild.inline.form
     IN  IF editChild.linking
           THEN /\ editChild' = [editChild EXCEPT !.inline.error = NULL]
                /\ inflight' = inflight
         ELSE IF Trim(f.first_name) = <<>>
           THEN /\ editChild' = [editChild EXCEPT !.inline.error = "first name required"]
                /\ inflight' = inflight
         ELSE IF Trim(f.phone) = <<>>
           THEN /\ editChild' = [editChild EXCEPT !.inline.error = "phone required"]
                /\ inflight' = inflight
         ELSE /\ editChild' = [editChild EXCEPT !.inline.error = NULL,
                                                !.inline.saving = TRUE]
              /\ inflight' =
                   Issue(inflight,
                         [BlankReq EXCEPT
                            !.sess = Terminal, !.kind = "guardianInsert",
                            !.child = manage.editChildId, !.cont = "inline",
                            !.form = [first_name |-> Trim(f.first_name),
                                      last_name |-> Trim(f.last_name),
                                      phone |-> Trim(f.phone)]])
  /\ UNCHANGED <<storeVars, pageVars, manage, createChild>>

\* a store without the rule
duplicateNever(tbl, self, f) == FALSE

\* the store's rule on guardians: an active guardian holds this triple
duplicateGuardian(tbl, self, f) ==
  \E g \in Guardians \ {self} :
     /\ tbl[g].active = "true"
     /\ tbl[g].first_name = f.first_name
     /\ tbl[g].last_name = f.last_name
     /\ tbl[g].phone = f.phone

\* the row an insert of the payload stores; full_name is derived
guardianRow(f) ==
  [first_name |-> f.first_name, last_name |-> f.last_name,
   full_name |-> IF f.last_name = <<>> THEN f.first_name
                 ELSE f.first_name \o <<" ">> \o f.last_name,
   phone |-> f.phone, active |-> "true"]

\* a check that recognises no outcome as the uniqueness violation
isDuplicateNever(outcome) == FALSE

\* isDuplicateConstraint over the outcome of the insert
isDuplicateConstraint(outcome) == outcome = "23505"

\* the insert of handleCreate resolves. Created: onCreated runs
\* handleGuardianCreatedInline up to its await and the form is reset
GuardianInserted(r, ok) ==
  /\ r \in Mine(Terminal) /\ r.kind = "guardianInsert"
  /\ LET free    == { g \in Guardians : guardians_tbl[g].active = "absent" }
         outcome == IF ~ok THEN "error"
                    ELSE IF duplicateGuardian(guardians_tbl, NULL, r.form) THEN "23505"
                    ELSE "created"
         id      == CHOOSE g \in free : TRUE
         here    == r.cont = "inline"
     IN  IF outcome = "created"
           THEN /\ free # {}
                /\ guardians_tbl' = [guardians_tbl EXCEPT ![id] = guardianRow(r.form)]
                /\ inflight' = Issue(inflight \ {r},
                                     [BlankReq EXCEPT
                                        !.sess = Terminal, !.kind = "inlineLink",
                                        !.child = r.child, !.guardian = id,
                                        !.cont = IF r.cont = "unmounted"
                                                   THEN "unmounted" ELSE "inline"])
                /\ editChild' =
                     IF r.cont = "unmounted" THEN editChild
                     ELSE LET e1 == [editChild EXCEPT !.guardianError = NULL,
                                                      !.linking = TRUE]
                          IN  IF here THEN [e1 EXCEPT !.inline = NoInline] ELSE e1
           ELSE /\ guardians_tbl' = guardians_tbl
                /\ inflight' = inflight \ {r}
                /\ editChild' =
                     IF ~here THEN editChild
                     ELSE [editChild EXCEPT
                             !.inline.error = IF isDuplicateConstraint(outcome)
                                                THEN "duplicate" ELSE "error",
                             !.inline.saving = FALSE]
  /\ UNCHANGED <<children_tbl, child_guardians, attendance, now, env, pageVars, manage,
                 createChild>>

\* the insert of handleGuardianCreatedInline resolves; on success the inline
\* form closes and loadLinkedGuardians starts
InlineLinkInserted(r, ok) ==
  /\ r \in Mine(Terminal) /\ r.kind = "inlineLink"
  /\ Room(1)
  /\ ok => Len(child_guardians) < MaxLinks
  /\ child_guardians' = IF ok THEN insertLink(child_guardians, r.child, r.guardian)
                        ELSE child_guardians
  /\ IF r.cont = "unmounted"
       THEN editChild' = editChild /\ inflight' = inflight \ {r}
     ELSE IF ~ok
       THEN /\ editChild' = [editChild EXCEPT !.guardianError = "error",
                                              !.linking = FALSE]
            /\ inflight' = inflight \ {r}
     ELSE LET l == loadLinkedGuardians(
                     manage.editChildId,
                     [editChild EXCEPT !.createGuardianOpen = FALSE,
                                       !.inline = NoInline],
                     unmountInline(inflight \ {r}), r.child, "inline")
          IN  editChild' = l.dlg /\ inflight' = l.inflight
  /\ UNCHANGED <<children_tbl, guardians_tbl, attendance, now, env, pageVars, manage,
                 createChild>>

\* ------- CreateGuardianInline.tsx, in the guardian step of check-in and in
\* the checkout dialog of today/page.tsx
\* "Add approved pickup" / "Close" of the checkout dialog
TogglePickup(s) ==
  /\ checkOutOpen[s]
  /\ ~checkingOut[s] /\ ~linkingGuardian[s]
  /\ SetPage(s, [Page(s) EXCEPT !.createPickupOpen = ~createPickupOpen[s],
                                !.inline = NoInline])
  /\ inflight' = inlineGone(inflight, s)
  /\ UNCHANGED storeVars

\* the disabled prop the page passes to the form
inlineDisabled(s) ==
  IF createPickupOpen[s] THEN checkingOut[s] \/ linkingGuardian[s]
  ELSE checkingIn[s] \/ linkingGuardian[s]

\* the inputs of the form
SetInlineForm(s, f) ==
  /\ createGuardianOpen[s] \/ createPickupOpen[s]
  /\ ~inlineDisabled(s) /\ ~inline[s].saving
  /\ f # inline[s].form
  /\ SetPage(s, [Page(s) EXCEPT !.inline.form = f])
  /\ UNCHANGED <<storeVars, inflight>>

\* "Create guardian" of the form: handleCreate up to its await. Its onCreated
\* is the handler of this render: it holds the child selected now
CreateGuardian(s) ==
  /\ createGuardianOpen[s] \/ createPickupOpen[s]
  /\ canCreate(inline[s].form) /\ ~inline[s].saving /\ ~inlineDisabled(s)
  /\ CanIssue(s)
  /\ LET f == inline[s].form
     IN  /\ SetPage(s, [Page(s) EXCEPT !.inline.error = NULL, !.inline.saving = TRUE])
         /\ inflight' =
              Issue(inflight,
                    [BlankReq EXCEPT
                       !.sess = s,
                       !.kind = IF createPickupOpen[s] THEN "coGuardianInsert"
                                ELSE "ciGuardianInsert",
                       !.child = IF createPickupOpen[s] THEN checkOutTarget[s].child_id
                                 ELSE selectedChild[s].id,
                       !.cont = "inline",
                       !.form = [first_name |-> Trim(f.first_name),
                                 last_name |-> Trim(f.last_name),
                                 phone |-> Trim(f.phone)]])
  /\ UNCHANGED storeVars

\* the insert of handleCreate resolves. Created: onCreated runs
\* handleGuardianCreated (handlePickupGuardianCreated) up to its await, and
\* the form, when it is still the mounted one, is reset
PageGuardianInserted(s, r, ok) ==
  /\ r \in Mine(s) /\ r.kind \in {"ciGuardianInsert", "coGuardianInsert"}
  /\ LET free    == { g \in Guardians : guardians_tbl[g].active = "absent" }
         outcome == IF ~ok THEN "error"
                    ELSE IF duplicateGuardian(guardians_tbl, NULL, r.form) THEN "23505"
                    ELSE "created"
         id      == CHOOSE g \in free : TRUE
         here    == r.cont = "inline"
         p       == Page(s)
     IN  IF outcome = "created"
           THEN /\ free # {}
                /\ guardians_tbl' = [guardians_tbl EXCEPT ![id] = guardianRow(r.form)]
                /\ inflight' =
                     Issue(inflight \ {r},
                           [BlankReq EXCEPT
                              !.sess = s,
                              !.kind = IF r.kind = "coGuardianInsert"
                                         THEN "coLinkInsert" ELSE "ciLinkInsert",
                              !.child = r.child, !.guardian = id])
                /\ LET p1 == IF r.kind = "coGuardianInsert"
                               THEN [p EXCEPT !.checkOutError = NULL,
                                              !.linkingGuardian = TRUE]
                               ELSE [p EXCEPT !.guardianError = NULL,
                                              !.linkingGuardian = TRUE]
                   IN  SetPage(s, IF here THEN [p1 EXCEPT !.inline = NoInline] ELSE p1)
           ELSE /\ guardians_tbl' = guardians_tbl
                /\ inflight' = inflight \ {r}
                /\ SetPage(s, IF ~here THEN p
                              ELSE [p EXCEPT
                                      !.inline.error = IF isDuplicateConstraint(outcome)
                                                         THEN "duplicate" ELSE "error",
                                      !.inline.saving = FALSE])
  /\ UNCHANGED <<children_tbl, child_guardians, attendance, now, env>>

\* the insert of linkGuardianToChild resolves: on success the form is closed
\* and the guardian list of the linked child is loaded
PageLinkInserted(s, r, ok) ==
  /\ r \in Mine(s) /\ r.kind \in {"ciLinkInsert", "coLinkInsert"}
  /\ ok => Len(child_guardians) < MaxLinks
  /\ child_guardians' = IF ok THEN insertLink(child_guardians, r.child, r.guardian)
                        ELSE child_guardians
  /\ LET p == Page(s)
     IN  IF r.kind = "ciLinkInsert"
           THEN IF ok
                  THEN LET l == loadGuardiansStart(
                                  s, [p EXCEPT !.createGuardianOpen = FALSE],
                                  inlineGone(inflight \ {r}, s), r.child, "link")
                       IN  SetPage(s, l.page) /\ inflight' = l.inflight
                  ELSE /\ SetPage(s, [p EXCEPT !.guardianError = "error",
                                               !.linkingGuardian = FALSE])
                       /\ inflight' = inflight \ {r}
           ELSE IF ok
                  THEN LET l == loadCheckoutGuardiansStart(
                                  s, [p EXCEPT !.createPickupOpen = FALSE],
                                  inlineGone(inflight \ {r}, s), r.child, "link")
                       IN  SetPage(s, l.page) /\ inflight' = l.inflight
                  ELSE /\ SetPage(s, [p EXCEPT !.checkOutError = "error",
                                               !.linkingGuardian = FALSE])
                       /\ inflight' = inflight \ {r}
  /\ UNCHANGED <<children_tbl, guardians_tbl, attendance, now, env>>

\* ------------------------ EditGuardianModal, below the Manage dialog
\* "Edit" on a row of the guardians results: setEditGuardianId; load() runs
\* up to its await
openEditGuardian(g) ==
  /\ manage.open /\ manage.editChildId = NULL /\ manage.editGuardian.id = NULL
  /\ manage.tab = "guardians" /\ ~manage.loading /\ g \in manage.guardianResults
  /\ Room(1)
  /\ manage' = [manage EXCEPT !.editGuardian.id = g, !.editGuardian.error = NULL,
                              !.editGuardian.loading = TRUE]
  /\ inflight' = Issue(inflight, [BlankReq EXCEPT !.sess = Terminal,
                                                  !.kind = "guardianLoad",
                                                  !.guardian = g])
  /\ UNCHANGED <<storeVars, pageVars, editChild, createChild>>

\* Close, Escape: setEditGuardianId(null); the load effect cleans up
closeEditGuardian ==
  /\ manage.open /\ manage.editGuardian.id # NULL
  /\ manage' = [manage EXCEPT !.editGuardian.id = NULL]
  /\ inflight' = cancelKind(inflight, Terminal, {"guardianLoad"})
  /\ UNCHANGED <<storeVars, pageVars, editChild, createChild>>

\* the guardians select of load() resolves
EditGuardianLoaded(r, ok) ==
  /\ r \in Mine(Terminal) /\ r.kind = "guardianLoad"
  /\ manage' =
       IF r.cancelled THEN manage
       ELSE IF ok
         THEN [manage EXCEPT
                 !.editGuardian.form =
                    [first_name |-> guardians_tbl[r.guardian].first_name,
                     last_name |-> guardians_tbl[r.guardian].last_name,
                     phone |-> guardians_tbl[r.guardian].phone],
                 !.editGuardian.loading = FALSE]
       ELSE [manage EXCEPT !.editGuardian.error = "error",
                           !.editGuardian.loading = FALSE]
  /\ inflight' = inflight \ {r}
  /\ UNCHANGED <<storeVars, pageVars, editChild, createChild>>

\* the inputs of EditGuardianModal
setGuardianForm(f) ==
  /\ manage.editGuardian.id # NULL /\ ~manage.editGuardian.loading
  /\ f # manage.editGuardian.form
  /\ manage' = [manage EXCEPT !.editGuardian.form = f]
  /\ UNCHANGED <<storeVars, inflight, pageVars, editChild, createChild>>

\* canSave of EditGuardianModal
canSaveGuardian(f) ==
  Len(Trim(f.first_name)) > 0 /\ Len(Trim(f.last_name)) > 0 /\ Len(Trim(f.phone)) > 0

\* "Save" of EditGuardianModal: handleSave up to its await
handleSaveGuardian ==
  /\ manage.editGuardian.id # NULL
  /\ canSaveGuardian(manage.editGuardian.form)
  /\ ~manage.editGuardian.saving /\ ~manage.editGuardian.loading
  /\ Room(1)
  /\ LET f == manage.editGuardian.form
     IN  IF ~canSaveGuardian(f)
           THEN /\ manage' = [manage EXCEPT !.editGuardian.error = "fields required"]
                /\ inflight' = inflight
           ELSE /\ manage' = [manage EXCEPT !.editGuardian.error = NULL,
                                            !.editGuardian.saving = TRUE]
                /\ inflight' =
                     Issue(inflight,
                           [BlankReq EXCEPT
                              !.sess = Terminal, !.kind = "guardianUpdate",
                              !.guardian = manage.editGuardian.id, !.cont = "save",
                              !.form = [first_name |-> Trim(f.first_name),
                                        last_name |-> Trim(f.last_name),
                                        phone |-> Trim(f.phone)]])
  /\ UNCHANGED <<storeVars, pageVars, editChild, createChild>>

\* the update of handleSave resolves; on success onUpdated searches again
\* and the dialog closes
GuardianUpdated(r, ok) ==
  /\ r \in Mine(Terminal) /\ r.kind = "guardianUpdate"
  /\ Room(1)
  /\ LET done == ok /\ ~duplicateGuardian(guardians_tbl, r.guardian, r.form)
     IN  /\ guardians_tbl' =
              IF done
                THEN [guardians_tbl EXCEPT
                        ![r.guardian] = [guardianRow(r.form) EXCEPT !.active =
                                           guardians_tbl[r.guardian].active]]
                ELSE guardians_tbl
         /\ IF r.cont = "unmounted"
              THEN manage' = manage /\ inflight' = inflight \ {r}
            ELSE IF ~done
              THEN /\ manage' = [manage EXCEPT !.editGuardian.error = "error",
                                               !.editGuardian.saving = FALSE]
                   /\ inflight' = inflight \ {r}
            ELSE LET m1 == [manage EXCEPT !.editGuardian.saving = FALSE,
                                          !.editGuardian.id = NULL]
                     s1 == IF manage.tab = "guardians"
                             THEN runGuardiansSearch(m1, inflight \ {r},
                                                     manage.guardianQuery)
                             ELSE [dlg |-> m1, inflight |-> inflight \ {r}]
                 IN  /\ manage' = s1.dlg
                     /\ inflight' = cancelKind(s1.inflight, Terminal, {"guardianLoad"})
  /\ UNCHANGED <<children_tbl, child_guardians, attendance, now, env, pageVars, editChild,
                 createChild>>

\* ------------------------------------------------- CreateChildModal.tsx
\* the ids of the staged list
staged(list) == { list[i] : i \in 1..Len(list) }

\* prev.filter((g) => g.id !== guardianId)
RECURSIVE without(_, _)
without(list, g) ==
  IF list = <<>> THEN <<>>
  ELSE IF Head(list) = g THEN without(Tail(list), g)
  ELSE <<Head(list)>> \o without(Tail(list), g)

\* searchGuardians up to its await, for a render that shows open, the
\* trimmed search term and the staged list
searchGuardians(open, term, linked, c, infl) ==
  LET c1 == [c EXCEPT !.searchError = NULL, !.searchResults = {}]
  IN  IF ~open \/ Len(term) < 2
        THEN [dlg |-> c1, inflight |-> infl]
        ELSE [dlg |-> [c1 EXCEPT !.searching = TRUE],
              inflight |-> Issue(markStale(infl, Terminal, "createSearch"),
                                 [BlankReq EXCEPT !.sess = Terminal,
                                                  !.kind = "createSearch",
                                                  !.term = term,
                                                  !.ids = staged(linked)])]

\* the search effect after a render that changed one of
\* [trimmedSearch, open, linkedGuardians]: cleanup, then run()
searchGuardiansEffect(c, infl) ==
  searchGuardians(c.open, Trim(c.search), c.linkedGuardians, c,
                  cancelKind(infl, Terminal, {"createSearch"}))

\* the host sets open: the reset effect and the search effect run on the
\* render that still shows the search term and the staged list of the last
\* opening, then the search effect runs again on the state the reset left
openCreateChild ==
  /\ ~createChild.open /\ ~manage.open
  /\ Room(1)
  /\ LET reset == [createChild EXCEPT !.open = TRUE, !.error = NULL,
                                      !.form = NoCreateChild.form,
                                      !.guardianError = NULL, !.searchError = NULL,
                                      !.linkedGuardians = <<>>, !.searchResults = {},
                                      !.search = <<>>, !.createGuardianOpen = FALSE]
         r1 == searchGuardians(TRUE, Trim(createChild.search),
                               createChild.linkedGuardians, reset,
                               cancelKind(inflight, Terminal, {"createSearch"}))
         r2 == searchGuardiansEffect(r1.dlg, r1.inflight)
     IN  createChild' = r2.dlg /\ inflight' = r2.inflight
  /\ UNCHANGED <<storeVars, pageVars, manage, editChild>>

\* onClose: the host clears open
closeCreateChild ==
  /\ createChild.open
  /\ LET r == searchGuardiansEffect([createChild EXCEPT !.open = FALSE], inflight)
     IN  createChild' = r.dlg /\ inflight' = r.inflight
  /\ UNCHANGED <<storeVars, pageVars, manage, editChild>>

\* the search input of the form
setCreateSearch(q) ==
  /\ createChild.open
  /\ q # createChild.search
  /\ Room(1)
  /\ LET c1 == [createChild EXCEPT !.search = q]
         r  == IF Trim(q) = Trim(createChild.search)
                 THEN [dlg |-> c1, inflight |-> inflight]
                 ELSE searchGuardiansEffect(c1, inflight)
     IN  createChild' = r.dlg /\ inflight' = r.inflight
  /\ UNCHANGED <<storeVars, pageVars, manage, editChild>>

\* the rest of searchGuardians after its await
searchGuardiansCommit(r, c, tbl, ok) ==
  IF ok THEN [c EXCEPT !.searchResults = guardiansMatching(tbl, r.term) \ r.ids,
                       !.searching = FALSE]
  ELSE [c EXCEPT !.searchError = "error", !.searchResults = {}, !.searching = FALSE]

CreateSearchDone(r, ok) ==
  /\ r \in Mine(Terminal) /\ r.kind = "createSearch"
  /\ createChild' = searchGuardiansCommit(r, createChild, guardians_tbl, ok)
  /\ inflight' = inflight \ {r}
  /\ UNCHANGED <<storeVars, pageVars, manage, editChild>>

\* a search result is tapped: linkGuardian up to its await
stageGuardian(g) ==
  /\ createChild.open /\ ~createChild.searching /\ g \in createChild.searchResults
  /\ Len(createChild.linkedGuardians) < MaxStaged
  /\ Room(1)
  /\ IF g \in staged(createChild.linkedGuardians)
       THEN /\ createChild' = [createChild EXCEPT !.guardianError = NULL,
                                                  !.loadingGuardians = FALSE]
            /\ inflight' = inflight
       ELSE /\ createChild' = [createChild EXCEPT !.guardianError = NULL,
                                                  !.loadingGuardians = TRUE]
            /\ inflight' = Issue(inflight, [BlankReq EXCEPT !.sess = Terminal,
                                                            !.kind = "createFetch",
                                                            !.guardian = g])
  /\ UNCHANGED <<storeVars, pageVars, manage, editChild>>

\* the guardians select of linkGuardian resolves: the guardian is staged
GuardianStaged(r, ok) ==
  /\ r \in Mine(Terminal) /\ r.kind = "createFetch"
  /\ IF ok
       THEN LET c1 == [createChild EXCEPT
                         !.linkedGuardians = Append(@, r.guardian),
                         !.search = <<>>, !.searchResults = {},
                         !.loadingGuardians = FALSE]
                e  == searchGuardiansEffect(c1, inflight \ {r})
            IN  createChild' = e.dlg /\ inflight' = e.inflight
       ELSE /\ createChild' = [createChild EXCEPT !.guardianError = "error",
                                                  !.loadingGuardians = FALSE]
            /\ inflight' = inflight \ {r}
  /\ UNCHANGED <<storeVars, pageVars, manage, editChild>>

\* "Remove" on a staged guardian: unlinkGuardian
unstageGuardian(g) ==
  /\ createChild.open /\ ~createChild.loadingGuardians
  /\ g \in staged(createChild.linkedGuardians)
  /\ Room(1)
  /\ LET e == searchGuardiansEffect(
                [createChild EXCEPT !.linkedGuardians = without(@, g)], inflight)
     IN  createChild' = e.dlg /\ inflight' = e.inflight
  /\ UNCHANGED <<storeVars, pageVars, manage, editChild>>

\* the forms the user may have typed; the date input gives a date or nothing
ChildForms ==
  { [first_name |-> <<"C", "y">>, last_name |-> <<"L", "e", "e">>,
     dob |-> [y |-> 2021, m |-> 1, d |-> 1]],
    [first_name |-> <<" ">>, last_name |-> <<"L", "e", "e">>,
     dob |-> [y |-> 2021, m |-> 1, d |-> 1]],
    [first_name |-> <<"C", "y">>, last_name |-> <<" ">>,
     dob |-> [y |-> 2021, m |-> 1, d |-> 1]],
    [first_name |-> <<"C", "y">>, last_name |-> <<"L", "e", "e">>, dob |-> NoDob] }

\* canSave: the Save button is disabled without it
canSave(f) ==
  Len(Trim(f.first_name)) > 0 /\ Len(Trim(f.last_name)) > 0 /\ f.dob # NoDob

\* the inputs of the form
setChildForm(f) ==
  /\ createChild.open /\ ~createChild.saving
  /\ f # createChild.form
  /\ createChild' = [createChild EXCEPT !.form = f]
  /\ UNCHANGED <<storeVars, inflight, pageVars, manage, editChild>>

\* "Save child": handleSave up to its first await
handleSave ==
  /\ createChild.open
  /\ canSave(createChild.form) /\ ~createChild.saving
  /\ Room(1)
  /\ LET f  == createChild.form
         c0 == [createChild EXCEPT !.error = NULL, !.guardianError = NULL]
     IN  IF ~canSave(f)
           THEN /\ createChild' = [c0 EXCEPT !.error = "fields required"]
                /\ inflight' = inflight
           ELSE /\ createChild' = [c0 EXCEPT !.saving = TRUE]
                /\ inflight' =
                     Issue(inflight,
                           [BlankReq EXCEPT
                              !.sess = Terminal, !.kind = "childInsert",
                              !.form = [first_name |-> Trim(f.first_name),
                                        last_name |-> Trim(f.last_name),
                                        phone |-> <<>>],
                              !.dob = f.dob,
                              !.list = createChild.linkedGuardians])
  /\ UNCHANGED <<storeVars, pageVars, manage, editChild>>

\* onCreated and onClose at the end of handleSave: the host clears open,
\* and finally clears saving
afterSave(c, infl) ==
  searchGuardiansEffect([c EXCEPT !.open = FALSE, !.saving = FALSE], infl)

\* the children insert of handleSave resolves; with staged guardians the
\* insert of their link rows is sent
ChildInserted(r, ok) ==
  /\ r \in Mine(Terminal) /\ r.kind = "childInsert"
  /\ LET free == { c \in Children : children_tbl[c].active = "absent" }
         id   == CHOOSE c \in free : TRUE
     IN  IF ~ok
           THEN /\ children_tbl' = children_tbl
                /\ createChild' = [createChild EXCEPT !.error = "error",
                                                      !.saving = FALSE]
                /\ inflight' = inflight \ {r}
           ELSE /\ free # {}
                /\ children_tbl' =
                     [children_tbl EXCEPT
                        ![id] = [first_name |-> r.form.first_name,
                                 last_name |-> r.form.last_name,
                                 dob |-> r.dob, active |-> "true"]]
                /\ IF r.list # <<>>
                     THEN /\ createChild' = createChild
                          /\ inflight' = Issue(inflight \ {r},
                                               [r EXCEPT !.kind = "childLinks",
                                                         !.child = id, !.n = 0])
                     ELSE LET a == afterSave(createChild, inflight \ {r})
                          IN  createChild' = a.dlg /\ inflight' = a.inflight
  /\ UNCHANGED <<guardians_tbl, child_guardians, attendance, now, env, pageVars, manage,
                 editChild>>

\* linkedGuardians.map(...) appended by one insert
RECURSIVE insertLinks(_, _, _)
insertLinks(links, c, list) ==
  IF list = <<>> THEN links
  ELSE insertLinks(insertLink(links, c, Head(list)), c, Tail(list))

\* the child_guardians insert of handleSave resolves
ChildLinksInserted(r, ok) ==
  /\ r \in Mine(Terminal) /\ r.kind = "childLinks"
  /\ ok => Len(child_guardians) + Len(r.list) <= MaxLinks
  /\ child_guardians' = IF ok THEN insertLinks(child_guardians, r.child, r.list)
                        ELSE child_guardians
  /\ IF ok
       THEN LET a == afterSave(createChild, inflight \ {r})
            IN  createChild' = a.dlg /\ inflight' = a.inflight
       ELSE /\ createChild' = [createChild EXCEPT !.error = "error", !.saving = FALSE]
            /\ inflight' = inflight \ {r}
  /\ UNCHANGED <<children_tbl, guardians_tbl, attendance, now, env, pageVars, manage,
                 editChild>>

\* ------------------------------------------ the store, from other dialogs
\* EditChildModal loadLinkedGuardians: links with active !== false, guardians
\* with active !== false
linkedGuardiansOf(links, tbl, c) == guardiansIn(tbl, linkIdsNotInactive(links, c))

\* the unlinkGuardian of an edit-child dialog on another terminal, on a
\* guardian its list shows, with its awaits collapsed
unlinkElsewhere(c, g) ==
  /\ g \in linkedGuardiansOf(child_guardians, guardians_tbl, c)
  /\ child_guardians' = deactivateLink(child_guardians, c, g)
  /\ UNCHANGED <<children_tbl, guardians_tbl, attendance, now, env, inflight,
                 pageVars, dialogVars>>

\* the dates of birth an edit-child form may be saved with
DobEdits == { [y |-> 2015, m |-> 1, d |-> 1], [y |-> 2020, m |-> 7, d |-> 1] }

\* the handleSave of an edit-child dialog on another terminal, with a changed
\* date of birth, with its awaits collapsed
saveChildElsewhere(c, dob) ==
  /\ children_tbl[c].active = "true"
  /\ dob # children_tbl[c].dob
  /\ children_tbl' = updateChild(children_tbl, c, dob)
  /\ UNCHANGED <<guardians_tbl, child_guardians, attendance, now, env, inflight,
                 pageVars, dialogVars>>

\* the completeCheckIn of another terminal of the same device settings, for
\* the coming Sunday, with its awaits collapsed
checkInElsewhere(c, g) ==
  /\ Len(attendance) < MaxAttendance
  /\ children_tbl[c].active = "true"
  /\ g \in linkedGuardiansOf(child_guardians, guardians_tbl, c)
  /\ attendance' =
       insertAttendance(attendance,
                        [BlankReq EXCEPT !.child = c, !.dob = children_tbl[c].dob,
                                         !.guardian = g,
                                         !.date = nextOrSameSunday(env.today),
                                         !.time = now])
  /\ UNCHANGED <<children_tbl, guardians_tbl, child_guardians, now, env, inflight,
                 pageVars, dialogVars>>

\* time passes
Tick ==
  /\ now < MaxNow
  /\ now' = now + 1
  /\ UNCHANGED <<env, children_tbl, guardians_tbl, child_guardians, attendance, inflight,
                 pageVars, dialogVars>>

\* ------------------------------------------------------------------ Init
QueryInputs == { <<>>, <<"a", "n">>, <<"l", "e">> }

\* the children and the guardians the store holds at the start
InitialChildren ==
  [c \in Children |->
     IF c = "c1"
       THEN [first_name |-> <<"A", "n", "a">>, last_name |-> <<"L", "e", "e">>,
             dob |-> [y |-> 2020, m |-> 7, d |-> 1], active |-> "true"]
       ELSE [first_name |-> <<"B", "e", "n">>, last_name |-> <<"L", "e", "e">>,
             dob |-> NoDob, active |-> "true"]]

InitialGuardians ==
  [g \in Guardians |->
     IF g = "g1"
       THEN [first_name |-> <<"A", "n", "a">>, last_name |-> <<"L", "e", "e">>,
             full_name |-> <<"A", "n", "a", " ", "L", "e", "e">>,
             phone |-> <<"0", "4">>, active |-> "true"]
       ELSE [first_name |-> <<"B", "o", "b">>, last_name |-> <<"L", "e", "e">>,
             full_name |-> <<"B", "o", "b", " ", "L", "e", "e">>,
             phone |-> <<"0", "5">>, active |-> "true"]]

InitStore ==
  /\ children_tbl = InitialChildren
  /\ guardians_tbl = InitialGuardians
  /\ child_guardians =
       << [child_id |-> "c1", guardian_id |-> "g1", active |-> "true"] >>
  /\ now = 1
  /\ env = HomeEnv

\* the page as mounted: every dialog closed, the first loadToday in flight
InitPages(S) ==
  /\ checkInOpen = [s \in Sessions |-> FALSE]
  /\ query = [s \in Sessions |-> <<>>]
  /\ results = [s \in Sessions |-> {}]
  /\ searching = [s \in Sessions |-> FALSE]
  /\ searchError = [s \in Sessions |-> NULL]
  /\ selectedChild = [s \in Sessions |-> NoChild]
  /\ guardians = [s \in Sessions |-> {}]
  /\ loadingGuardians = [s \in Sessions |-> FALSE]
  /\ guardianError = [s \in Sessions |-> NULL]
  /\ checkInError = [s \in Sessions |-> NULL]
  /\ checkingIn = [s \in Sessions |-> FALSE]
  /\ createGuardianOpen = [s \in Sessions |-> FALSE]
  /\ linkingGuardian = [s \in Sessions |-> FALSE]
  /\ inline = [s \in Sessions |-> NoInline]
  /\ serviceSunday = [s \in Sessions |-> nextOrSameSunday(env.today)]
  /\ checkedIn = [s \in Sessions |-> <<>>]
  /\ loadingToday = [s \in Sessions |-> s \in S]
  /\ todayError = [s \in Sessions |-> NULL]
  /\ auth = [s \in Sessions |-> NoAuth]
  /\ checkOutOpen = [s \in Sessions |-> FALSE]
  /\ checkOutTarget = [s \in Sessions |-> NoRow]
  /\ checkOutGuardians = [s \in Sessions |-> {}]
  /\ loadingCheckOutGuardians = [s \in Sessions |-> FALSE]
  /\ checkOutError = [s \in Sessions |-> NULL]
  /\ checkingOut = [s \in Sessions |-> FALSE]
  /\ createPickupOpen = [s \in Sessions |-> FALSE]
  /\ inflight = { [BlankReq EXCEPT !.sess = s, !.kind = "loadToday",
                                   !.date = nextOrSameSunday(env.today), !.cont = "none"] :
                    s \in S }
  /\ manage = NoManage
  /\ editChild = NoEditChild
  /\ createChild = NoCreateChild

\* one terminal runs the check-in workflow while links are edited elsewhere
CheckInSessions == {"s1"}

Init ==
  /\ InitStore
  /\ attendance = <<>>
  /\ InitPages(CheckInSessions)

Next ==
  \/ \E s \in CheckInSessions : OpenCheckIn(s)
  \/ \E s \in CheckInSessions : CloseCheckIn(s)
  \/ \E s \in CheckInSessions, q \in QueryInputs : SetQuery(s, q)
  \/ \E s \in CheckInSessions, r \in inflight, ok \in BOOLEAN : SearchDone(s, r, ok)
  \/ \E s \in CheckInSessions : \E c \in results[s] : startGuardianStep(s, c)
  \/ \E s \in CheckInSessions, r \in inflight, ok \in BOOLEAN : GuardianLinksDone(s, r, ok)
  \/ \E s \in CheckInSessions, r \in inflight, ok \in BOOLEAN : GuardiansDone(s, r, ok)
  \/ \E s \in CheckInSessions : Back(s)
  \/ \E s \in CheckInSessions : ToggleCreateGuardian(s)
  \/ \E s \in CheckInSessions, g \in Guardians : completeCheckIn(s, g)
  \/ \E s \in CheckInSessions, r \in inflight, ok \in BOOLEAN : CheckInInserted(s, r, ok)
  \/ \E s \in CheckInSessions, r \in inflight, ok \in BOOLEAN : TodayLoaded(s, r, ok)
  \/ \E c \in Children, g \in Guardians : unlinkElsewhere(c, g)

Spec == Init /\ [][Next]_vars

\* ---------------------------------------------------- checkout, two terminals
\* two terminals show the roster of a Sunday on which c1 is checked in
CheckOutSessions == {"s1", "s2"}

InitCheckOut ==
  /\ InitStore
  /\ attendance =
       << newAttendance([BlankReq EXCEPT !.child = "c1", !.guardian = "g1",
                                         !.dob = [y |-> 2020, m |-> 7, d |-> 1],
                                         !.date = nextOrSameSunday(Today),
                                         !.time = 1]) >>
  /\ InitPages(CheckOutSessions)

NextCheckOut ==
  \/ \E s \in CheckOutSessions, r \in inflight, ok \in BOOLEAN : TodayLoaded(s, r, ok)
  \/ \E s \in CheckOutSessions, k \in 1..MaxAttendance : openCheckout(s, k)
  \/ \E s \in CheckOutSessions : CloseCheckout(s)
  \/ \E s \in CheckOutSessions, r \in inflight, ok \in BOOLEAN : CheckoutLinksDone(s, r, ok)
  \/ \E s \in CheckOutSessions, r \in inflight, ok \in BOOLEAN : CheckoutGuardiansDone(s, r, ok)
  \/ \E s \in CheckOutSessions, g \in Guardians : completeCheckOut(s, g)
  \/ \E s \in CheckOutSessions, r \in inflight, ok \in BOOLEAN : CheckOutUpdated(s, r, ok)
  \/ \E c \in Children, g \in Guardians : unlinkElsewhere(c, g)
  \/ Tick

SpecCheckOut == InitCheckOut /\ [][NextCheckOut]_vars

\* ------------------------------------------- one terminal, dates and roster
RosterSessions == {"s1"}

InitRoster ==
  /\ InitStore
  /\ attendance =
       << newAttendance([BlankReq EXCEPT !.child = "c1", !.guardian = "g1",
                                         !.dob = [y |-> 2020, m |-> 7, d |-> 1],
                                         !.date = nextOrSameSunday(Today),
                                         !.time = 1]) >>
  /\ InitPages(RosterSessions)

NextRoster ==
  \/ \E s \in RosterSessions, r \in inflight, ok \in BOOLEAN : TodayLoaded(s, r, ok)
  \/ \E s \in RosterSessions : stepSunday(s, "prev")
  \/ \E s \in RosterSessions : stepSunday(s, "next")
  \/ \E s \in RosterSessions, k \in 1..MaxAttendance : openCheckout(s, k)
  \/ \E s \in RosterSessions : CloseCheckout(s)
  \/ \E s \in RosterSessions, r \in inflight, ok \in BOOLEAN : CheckoutLinksDone(s, r, ok)
  \/ \E s \in RosterSessions, r \in inflight, ok \in BOOLEAN : CheckoutGuardiansDone(s, r, ok)
  \/ \E s \in RosterSessions, g \in Guardians : completeCheckOut(s, g)
  \/ \E s \in RosterSessions, r \in inflight, ok \in BOOLEAN : CheckOutUpdated(s, r, ok)

SpecRoster == InitRoster /\ [][NextRoster]_vars

\* --------------- one terminal: checkout and dates of a roster that holds
\* the check-in of c1, while the date of birth of c1 is edited elsewhere
InitBucket ==
  /\ InitStore
  /\ attendance =
       << newAttendance([BlankReq EXCEPT !.child = "c1", !.guardian = "g1",
                                         !.dob = [y |-> 2020, m |-> 7, d |-> 1],
                                         !.date = nextOrSameSunday(Today),
                                         !.time = 1]) >>
  /\ InitPages(RosterSessions)

NextBucket ==
  \/ NextRoster
  \/ \E dob \in DobEdits : saveChildElsewhere("c1", dob)

SpecBucket == InitBucket /\ [][NextBucket]_vars

\* ------------- one terminal, the roster of a Sunday on which c1 was checked
\* in by this page and c2 by its earlier revision
LegacyAges == { {}, {4}, {7}, {11} }

InitLegacy ==
  /\ InitStore
  /\ \E a \in LegacyAges :
        attendance =
          << newAttendance([BlankReq EXCEPT !.child = "c1", !.guardian = "g1",
                                            !.dob = [y |-> 2020, m |-> 7, d |-> 1],
                                            !.date = nextOrSameSunday(Today),
                                            !.time = 1]),
             [newAttendance([BlankReq EXCEPT !.child = "c2", !.guardian = "g2",
                                             !.date = nextOrSameSunday(Today),
                                             !.time = 1])
                EXCEPT !.group_key = groupKeyForAge(a)] >>
  /\ InitPages(RosterSessions)

SpecLegacy == InitLegacy /\ [][NextRoster]_vars

\* ------------- one terminal, the roster of a Sunday with two check-ins;
\* check_in_time is the clock of the terminal at the tap, so the later row
\* of the table may hold the earlier time
DobInputs == { NoDob, [y |-> 2020, m |-> 7, d |-> 1], [y |-> 2015, m |-> 1, d |-> 1] }

InitOrder ==
  /\ InitStore
  /\ \E d1 \in DobInputs, d2 \in DobInputs, t1 \in 1..MaxNow, t2 \in 1..MaxNow :
        attendance =
          << newAttendance([BlankReq EXCEPT !.child = "c1", !.guardian = "g1",
                                            !.dob = d1,
                                            !.date = nextOrSameSunday(Today),
                                            !.time = t1]),
             newAttendance([BlankReq EXCEPT !.child = "c2", !.guardian = "g1",
                                            !.dob = d2,
                                            !.date = nextOrSameSunday(Today),
                                            !.time = t2]) >>
  /\ InitPages(RosterSessions)

SpecOrder == InitOrder /\ [][NextRoster]_vars

\* ------------- one terminal, checkout and dates, while the other writes of
\* the store happen elsewhere: check-ins, edits of a child, links ended
NextStore ==
  \/ NextRoster
  \/ \E c \in Children, g \in Guardians : checkInElsewhere(c, g)
  \/ \E dob \in DobEdits : saveChildElsewhere("c1", dob)
  \/ \E c \in Children, g \in Guardians : unlinkElsewhere(c, g)

SpecStore == InitRoster /\ [][NextStore]_vars

\* ------------- one terminal, the date picker, mounted on any day of a week
\* and on days whose week crosses the end of a month, of February and of a year
DateTodays ==
  (7..13) \cup { NewDate(2025, 5, 25), NewDate(2025, 11, 29),
                 NewDate(2024, 1, 26), NewDate(2023, 1, 23) }

InitDates ==
  /\ children_tbl = InitialChildren
  /\ guardians_tbl = InitialGuardians
  /\ child_guardians =
       << [child_id |-> "c1", guardian_id |-> "g1", active |-> "true"] >>
  /\ now = 1
  /\ env \in [today : DateTodays, offset : Offsets]
  /\ attendance = <<>>
  /\ InitPages(RosterSessions)

NextDates ==
  \/ \E s \in RosterSessions, r \in inflight, ok \in BOOLEAN : TodayLoaded(s, r, ok)
  \/ \E s \in RosterSessions : stepSunday(s, "prev")
  \/ \E s \in RosterSessions : stepSunday(s, "next")

SpecDates == InitDates /\ [][NextDates]_vars

\* the age classification on its own: a child of any date of birth is
\* checked in on a device of any clock year and either side of UTC
AgeDobs ==
  { NoDob, BadDob,
    [y |-> 2020, m |-> 7, d |-> 1], [y |-> 2020, m |-> 6, d |-> 30],
    [y |-> 2019, m |-> 7, d |-> 1], [y |-> 2019, m |-> 6, d |-> 30],
    [y |-> 2017, m |-> 1, d |-> 1], [y |-> 2016, m |-> 7, d |-> 1],
    [y |-> 2016, m |-> 6, d |-> 30], [y |-> 2015, m |-> 1, d |-> 1],
    [y |-> 2020, m |-> 1, d |-> 1], [y |-> 2024, m |-> 2, d |-> 29],
    [y |-> 2025, m |-> 6, d |-> 30], [y |-> 2026, m |-> 1, d |-> 1] }

\* Wednesday 2025-06-04 and Sunday 2026-01-04
AgeTodays == { Today, 224 }

InitAge ==
  /\ \E dob \in AgeDobs :
       children_tbl = [InitialChildren EXCEPT !["c1"].dob = dob]
  /\ guardians_tbl = InitialGuardians
  /\ child_guardians =
       << [child_id |-> "c1", guardian_id |-> "g1", active |-> "true"] >>
  /\ now = 1
  /\ env \in [today : AgeTodays, offset : Offsets]
  /\ attendance = <<>>
  /\ InitPages({})

NextAge == \E c \in Children, g \in Guardians : checkInElsewhere(c, g)

SpecAge == InitAge /\ [][NextAge]_vars

\* ------------- one terminal, check-in and checkout with the inline guardian
\* form: c2 has no guardian, g1 is a guardian of c1 only, g2 is not yet stored
InlineSessions == {"s1"}

\* what the inline form may hold: a new guardian, and the name and phone of g1
InlineForms ==
  { [first_name |-> <<"B", "o", "b">>, last_name |-> <<"L", "e", "e">>,
     phone |-> <<"0", "5">>],
    [first_name |-> <<"A", "n", "a">>, last_name |-> <<"L", "e", "e">>,
     phone |-> <<"0", "4">>] }

InitInline ==
  /\ children_tbl = InitialChildren
  /\ guardians_tbl =
       [InitialGuardians EXCEPT
          !["g2"] = [first_name |-> <<>>, last_name |-> <<>>, full_name |-> <<>>,
                     phone |-> <<>>, active |-> "absent"]]
  /\ child_guardians =
       << [child_id |-> "c1", guardian_id |-> "g1", active |-> "true"] >>
  /\ now = 1
  /\ env = HomeEnv
  /\ attendance = <<>>
  /\ InitPages(InlineSessions)

NextInline ==
  \/ \E s \in InlineSessions : OpenCheckIn(s)
  \/ \E s \in InlineSessions : CloseCheckIn(s)
  \/ \E s \in InlineSessions : SetQuery(s, <<"l", "e">>)
  \/ \E s \in InlineSessions, r \in inflight : SearchDone(s, r, TRUE)
  \/ \E s \in InlineSessions : \E c \in results[s] : startGuardianStep(s, c)
  \/ \E s \in InlineSessions, r \in inflight : GuardianLinksDone(s, r, TRUE)
  \/ \E s \in InlineSessions, r \in inflight : GuardiansDone(s, r, TRUE)
  \/ \E s \in InlineSessions : Back(s)
  \/ \E s \in InlineSessions : ToggleCreateGuardian(s)
  \/ \E s \in InlineSessions, f \in InlineForms : SetInlineForm(s, f)
  \/ \E s \in InlineSessions : CreateGuardian(s)
  \/ \E s \in InlineSessions, r \in inflight, ok \in BOOLEAN : PageGuardianInserted(s, r, ok)
  \/ \E s \in InlineSessions, r \in inflight, ok \in BOOLEAN : PageLinkInserted(s, r, ok)
  \/ \E s \in InlineSessions, g \in Guardians : completeCheckIn(s, g)
  \/ \E s \in InlineSessions, r \in inflight : CheckInInserted(s, r, TRUE)
  \/ \E s \in InlineSessions, r \in inflight : TodayLoaded(s, r, TRUE)

SpecInline == InitInline /\ [][NextInline]_vars

\* the same store with c1 checked in by g1: checkout with the inline form
InitPickup ==
  /\ children_tbl = InitialChildren
  /\ guardians_tbl =
       [InitialGuardians EXCEPT
          !["g2"] = [first_name |-> <<>>, last_name |-> <<>>, full_name |-> <<>>,
                     phone |-> <<>>, active |-> "absent"]]
  /\ child_guardians =
       << [child_id |-> "c1", guardian_id |-> "g1", active |-> "true"] >>
  /\ now = 1
  /\ env = HomeEnv
  /\ attendance =
       << newAttendance([BlankReq EXCEPT !.child = "c1", !.guardian = "g1",
                                         !.dob = [y |-> 2020, m |-> 7, d |-> 1],
                                         !.date = nextOrSameSunday(Today),
                                         !.time = 1]) >>
  /\ InitPages(InlineSessions)

NextPickup ==
  \/ \E s \in InlineSessions, r \in inflight : TodayLoaded(s, r, TRUE)
  \/ \E s \in InlineSessions, k \in 1..MaxAttendance : openCheckout(s, k)
  \/ \E s \in InlineSessions : CloseCheckout(s)
  \/ \E s \in InlineSessions, r \in inflight : CheckoutLinksDone(s, r, TRUE)
  \/ \E s \in InlineSessions, r \in inflight : CheckoutGuardiansDone(s, r, TRUE)
  \/ \E s \in InlineSessions : TogglePickup(s)
  \/ \E s \in InlineSessions, f \in InlineForms : SetInlineForm(s, f)
  \/ \E s \in InlineSessions : CreateGuardian(s)
  \/ \E s \in InlineSessions, r \in inflight, ok \in BOOLEAN : PageGuardianInserted(s, r, ok)
  \/ \E s \in InlineSessions, r \in inflight, ok \in BOOLEAN : PageLinkInserted(s, r, ok)
  \/ \E s \in InlineSessions, g \in Guardians : completeCheckOut(s, g)
  \/ \E s \in InlineSessions, r \in inflight : CheckOutUpdated(s, r, TRUE)

SpecPickup == InitPickup /\ [][NextPickup]_vars

\* ------------------------------------------- the caller and the login route
\* the page is the route shown
onToday(s) == auth[s].route = "today"

\* supabase.auth.getSession() of the mount effect resolves: with a session,
\* with none, or with an error (the error field or a rejected promise)
SessionLooked(s, outcome) ==
  /\ auth[s].authLoading
  /\ LET a == auth[s]
         b == IF outcome = "error"
                THEN [a EXCEPT !.authError = "error", !.authEmail = NULL,
                               !.authLoading = FALSE]
              ELSE IF outcome = "session"
                THEN [a EXCEPT !.authEmail = "user", !.authLoading = FALSE]
              ELSE [a EXCEPT !.authEmail = NULL, !.authLoading = FALSE,
                             !.route = "login"]
     IN  SetPage(s, [Page(s) EXCEPT
                       !.auth = IF onToday(s) THEN b
                                ELSE [a EXCEPT !.authLoading = FALSE]])
  /\ UNCHANGED <<storeVars, inflight, dialogVars>>

\* the onAuthStateChange callback, subscribed while the page is mounted
AuthStateChanged(s, session) ==
  /\ onToday(s)
  /\ SetPage(s, [Page(s) EXCEPT
                   !.auth.authEmail = IF session THEN "user" ELSE NULL,
                   !.auth.route = IF session THEN @ ELSE "login"])
  /\ UNCHANGED <<storeVars, inflight, dialogVars>>

\* "Log out": handleLogout up to the await of signOut
handleLogout(s) ==
  /\ onToday(s) /\ auth[s].authEmail # NULL /\ ~auth[s].loggingOut
  /\ SetPage(s, [Page(s) EXCEPT !.auth.authError = NULL, !.auth.loggingOut = TRUE])
  /\ UNCHANGED <<storeVars, inflight, dialogVars>>

\* signOut resolves
SignedOut(s, ok) ==
  /\ auth[s].loggingOut
  /\ LET a == auth[s]
     IN  SetPage(s, [Page(s) EXCEPT
                       !.auth = IF ~onToday(s) THEN [a EXCEPT !.loggingOut = FALSE]
                                ELSE IF ok
                                  THEN [a EXCEPT !.authEmail = NULL, !.route = "login",
                                                 !.loggingOut = FALSE]
                                ELSE [a EXCEPT !.authError = "error",
                                               !.loggingOut = FALSE]])
  /\ UNCHANGED <<storeVars, inflight, dialogVars>>

\* the page of a session that enters, with the child search of check-in
AuthSessions == {"s1"}

LookupOutcomes == {"session", "none", "error"}

InitAuth ==
  /\ children_tbl = InitialChildren
  /\ guardians_tbl = InitialGuardians
  /\ child_guardians =
       << [child_id |-> "c1", guardian_id |-> "g1", active |-> "true"] >>
  /\ now = 1
  /\ env = HomeEnv
  /\ attendance = <<>>
  /\ InitPages(AuthSessions)

NextAuth ==
  \/ \E s \in AuthSessions, o \in LookupOutcomes : SessionLooked(s, o)
  \/ \E s \in AuthSessions, b \in BOOLEAN : AuthStateChanged(s, b)
  \/ \E s \in AuthSessions : handleLogout(s)
  \/ \E s \in AuthSessions, ok \in BOOLEAN : SignedOut(s, ok)
  \/ \E s \in AuthSessions : onToday(s) /\ OpenCheckIn(s)
  \/ \E s \in AuthSessions : onToday(s) /\ CloseCheckIn(s)
  \/ \E s \in AuthSessions : onToday(s) /\ SetQuery(s, <<"l", "e">>)
  \/ \E s \in AuthSessions, r \in inflight : SearchDone(s, r, TRUE)
  \/ \E s \in AuthSessions, r \in inflight : TodayLoaded(s, r, TRUE)

SpecAuth == InitAuth /\ [][NextAuth]_vars

\* ------------------------------ one terminal, the guarded search boxes
\* the roster of the terminal is loaded; the user works the check-in dialog
\* or the Manage dialog and, from its children results, the edit-child form
InitSearch ==
  /\ InitStore
  /\ attendance = <<>>
  /\ InitPages({})

NextSearch ==
  \/ OpenCheckIn(Terminal)
  \/ CloseCheckIn(Terminal)
  \/ \E q \in QueryInputs : SetQuery(Terminal, q)
  \/ \E r \in inflight, ok \in BOOLEAN : SearchDone(Terminal, r, ok)
  \/ OpenManage
  \/ CloseManage
  \/ \E q \in QueryInputs : setActiveQuery(q)
  \/ \E r \in inflight, ok \in BOOLEAN : ManageChildrenDone(r, ok)
  \/ \E c \in manage.childResults : openEditChild(c)
  \/ closeEditChild
  \/ \E r \in inflight, ok \in BOOLEAN : EditChildLoaded(r, ok)
  \/ \E r \in inflight, ok \in BOOLEAN : EditLinksDone(r, ok)
  \/ \E r \in inflight, ok \in BOOLEAN : EditGuardiansDone(r, ok)
  \/ \E q \in QueryInputs : setSearch(q)
  \/ \E r \in inflight, ok \in BOOLEAN : EditSearchDone(r, ok)
  \/ \E g \in Guardians : unlinkGuardian(g)
  \/ \E r \in inflight, ok \in BOOLEAN : EditUnlinked(r, ok)

SpecSearch == InitSearch /\ [][NextSearch]_vars

\* ------------------------------------------- one terminal, the Manage dialog
InitManage ==
  /\ InitStore
  /\ attendance = <<>>
  /\ InitPages({})

NextManage ==
  \/ OpenManage
  \/ CloseManage
  \/ setTab("children")
  \/ setTab("guardians")
  \/ \E q \in QueryInputs : setActiveQuery(q)
  \/ \E r \in inflight, ok \in BOOLEAN : ManageChildrenDone(r, ok)
  \/ \E r \in inflight, ok \in BOOLEAN : ManageGuardiansDone(r, ok)

SpecManage == InitManage /\ [][NextManage]_vars

\* ------------------------------------- one terminal, the create-child form
InitCreateChild ==
  /\ children_tbl = [InitialChildren EXCEPT !["c2"].active = "absent"]
  /\ guardians_tbl = InitialGuardians
  /\ child_guardians =
       << [child_id |-> "c1", guardian_id |-> "g1", active |-> "true"] >>
  /\ now = 1
  /\ env = HomeEnv
  /\ attendance = <<>>
  /\ InitPages({})

NextCreateChild ==
  \/ openCreateChild
  \/ closeCreateChild
  \/ \E q \in QueryInputs : setCreateSearch(q)
  \/ \E r \in inflight, ok \in BOOLEAN : CreateSearchDone(r, ok)
  \/ \E g \in Guardians : stageGuardian(g)
  \/ \E r \in inflight, ok \in BOOLEAN : GuardianStaged(r, ok)
  \/ \E g \in Guardians : unstageGuardian(g)
  \/ \E f \in ChildForms : setChildForm(f)
  \/ handleSave
  \/ \E r \in inflight, ok \in BOOLEAN : ChildInserted(r, ok)
  \/ \E r \in inflight, ok \in BOOLEAN : ChildLinksInserted(r, ok)

SpecCreateChild == InitCreateChild /\ [][NextCreateChild]_vars

\* ------------------------- two terminals, linking and unlinking guardians
\* one terminal works the edit-child form under the Manage dialog while the
\* edit-child form of another terminal links the same pairs
InitLink ==
  /\ InitStore
  /\ attendance = <<>>
  /\ InitPages({})

NextLink ==
  \/ OpenManage
  \/ \E q \in {<<"l", "e">>} : setActiveQuery(q)
  \/ \E r \in inflight : ManageChildrenDone(r, TRUE)
  \/ \E c \in manage.childResults : openEditChild(c)
  \/ closeEditChild
  \/ \E r \in inflight, ok \in BOOLEAN : EditChildLoaded(r, ok)
  \/ \E r \in inflight, ok \in BOOLEAN : EditLinksDone(r, ok)
  \/ \E r \in inflight, ok \in BOOLEAN : EditGuardiansDone(r, ok)
  \/ \E q \in {<<>>, <<"l", "e">>} : setSearch(q)
  \/ \E r \in inflight, ok \in BOOLEAN : EditSearchDone(r, ok)
  \/ \E g \in Guardians : linkGuardian(g)
  \/ \E c \in Children, g \in Guardians : linkGuardianElsewhere(c, g)
  \/ \E r \in inflight, ok \in BOOLEAN : EditLinkSelected(r, ok)
  \/ \E r \in inflight, ok \in BOOLEAN : EditLinkWritten(r, ok)
  \/ \E g \in Guardians : unlinkGuardian(g)
  \/ \E r \in inflight, ok \in BOOLEAN : EditUnlinked(r, ok)

SpecLink == InitLink /\ [][NextLink]_vars

\* ------------------- one terminal, guardian lists over any flags in the store
\* the active column of guardians and of child_guardians: boolean | null
Flags == {"true", "false", NULL}

\* c1 holds a link row to each guardian; the flags of the guardians and of
\* the link rows are any the column admits
InitActive ==
  /\ children_tbl = InitialChildren
  /\ \E f \in [Guardians -> Flags] :
        guardians_tbl = [g \in Guardians |-> [InitialGuardians[g] EXCEPT !.active = f[g]]]
  /\ \E l \in [Guardians -> Flags] :
        child_guardians =
          << [child_id |-> "c1", guardian_id |-> "g1", active |-> l["g1"]],
             [child_id |-> "c1", guardian_id |-> "g2", active |-> l["g2"]] >>
  /\ now = 1
  /\ env = HomeEnv
  /\ attendance = <<>>
  /\ InitPages({})

NextActive ==
  \/ OpenCheckIn(Terminal)
  \/ SetQuery(Terminal, <<"a", "n">>)
  \/ \E r \in inflight : SearchDone(Terminal, r, TRUE)
  \/ \E c \in results[Terminal] : startGuardianStep(Terminal, c)
  \/ \E r \in inflight, ok \in BOOLEAN : GuardianLinksDone(Terminal, r, ok)
  \/ \E r \in inflight, ok \in BOOLEAN : GuardiansDone(Terminal, r, ok)
  \/ OpenManage
  \/ setActiveQuery(<<"a", "n">>)
  \/ \E r \in inflight : ManageChildrenDone(r, TRUE)
  \/ \E c \in manage.childResults : openEditChild(c)
  \/ \E r \in inflight : EditChildLoaded(r, TRUE)
  \/ \E r \in inflight, ok \in BOOLEAN : EditLinksDone(r, ok)
  \/ \E r \in inflight, ok \in BOOLEAN : EditGuardiansDone(r, ok)

SpecActive == InitActive /\ [][NextActive]_vars

\* ------------------- one terminal, creating and editing guardians
\* the store holds guardian g1 only; the user creates guardians from the
\* edit-child form and edits them from the guardians tab of the Manage dialog
InitGuardian ==
  /\ children_tbl = InitialChildren
  /\ guardians_tbl =
       [InitialGuardians EXCEPT
          !["g2"] = [first_name |-> <<>>, last_name |-> <<>>, full_name |-> <<>>,
                     phone |-> <<>>, active |-> "absent"]]
  /\ child_guardians =
       << [child_id |-> "c1", guardian_id |-> "g1", active |-> "true"] >>
  /\ now = 1
  /\ env = HomeEnv
  /\ attendance = <<>>
  /\ InitPages({})

NextGuardian ==
  \/ OpenManage
  \/ CloseManage
  \/ setTab("children")
  \/ setTab("guardians")
  \/ setActiveQuery(<<"l", "e">>)
  \/ \E r \in inflight : ManageChildrenDone(r, TRUE)
  \/ \E r \in inflight : ManageGuardiansDone(r, TRUE)
  \/ \E c \in manage.childResults : openEditChild(c)
  \/ closeEditChild
  \/ \E r \in inflight : EditChildLoaded(r, TRUE)
  \/ \E r \in inflight : EditLinksDone(r, TRUE)
  \/ \E r \in inflight : EditGuardiansDone(r, TRUE)
  \/ toggleCreateGuardian
  \/ \E f \in FormInputs : setForm(f)
  \/ handleCreate
  \/ \E r \in inflight, ok \in BOOLEAN : GuardianInserted(r, ok)
  \/ \E r \in inflight, ok \in BOOLEAN : InlineLinkInserted(r, ok)
  \/ \E g \in Guardians : openEditGuardian(g)
  \/ closeEditGuardian
  \/ \E r \in inflight, ok \in BOOLEAN : EditGuardianLoaded(r, ok)
  \/ \E f \in FormInputs : setGuardianForm(f)
  \/ handleSaveGuardian
  \/ \E r \in inflight, ok \in BOOLEAN : GuardianUpdated(r, ok)

SpecGuardian == InitGuardian /\ [][NextGuardian]_vars

\* ------------------------- one terminal, the two creation forms
\* neither c2 nor g2 exists yet; the user fills the create-child form, or
\* opens the edit-child form of c1 and fills its inline guardian form
InitForms ==
  /\ children_tbl = [InitialChildren EXCEPT !["c2"].active = "absent"]
  /\ guardians_tbl = [InitialGuardians EXCEPT !["g2"].active = "absent"]
  /\ child_guardians =
       << [child_id |-> "c1", guardian_id |-> "g1", active |-> "true"] >>
  /\ now = 1
  /\ env = HomeEnv
  /\ attendance = <<>>
  /\ InitPages({})

NextForms ==
  \/ OpenManage
  \/ CloseManage
  \/ setActiveQuery(<<"a", "n">>)
  \/ \E r \in inflight : ManageChildrenDone(r, TRUE)
  \/ \E c \in manage.childResults : openEditChild(c)
  \/ \E r \in inflight : EditChildLoaded(r, TRUE)
  \/ \E r \in inflight : EditLinksDone(r, TRUE)
  \/ \E r \in inflight : EditGuardiansDone(r, TRUE)
  \/ toggleCreateGuardian
  \/ \E f \in FormInputs : setForm(f)
  \/ handleCreate
  \/ \E r \in inflight, ok \in BOOLEAN : GuardianInserted(r, ok)
  \/ \E r \in inflight, ok \in BOOLEAN : InlineLinkInserted(r, ok)
  \/ openCreateChild
  \/ closeCreateChild
  \/ \E f \in ChildForms : setChildForm(f)
  \/ handleSave
  \/ \E r \in inflight, ok \in BOOLEAN : ChildInserted(r, ok)

SpecForms == InitForms /\ [][NextForms]_vars

\* ====================================================== claims: check-in
\* C1: a check-in for a child that already has an attendance record for the
\* same service date creates no record, so every (child, service date) pair
\* has at most one attendance record.
C1_OneRecordPerChildAndDate ==
  \A i, j \in 1..Len(attendance) :
     (/\ attendance[i].child_id = attendance[j].child_id
      /\ attendance[i].service_date = attendance[j].service_date) => i = j

\* C4: every attendance record completeCheckIn creates names as check-in
\* guardian an active guardian that holds an active link to the record's
\* child at the moment of the insert (so a child with no active linked
\* guardian cannot be checked in).
C4_CheckInGuardianLinked ==
  [][\A i \in (Len(attendance) + 1)..Len(attendance') :
        attendance'[i].checked_in_by_guardian_id \in
          guardiansIn(guardians_tbl,
                      activeLinkIds(child_guardians, attendance'[i].child_id))]_vars

\* a link row, active or not, of the pair exists
HasLinkRow(c, g) ==
  \E i \in 1..Len(child_guardians) :
     child_guardians[i].child_id = c /\ child_guardians[i].guardian_id = g

\* C5: the guardian list of the check-in step is empty or was loaded for the
\* currently selected child, and the list of the checkout dialog is empty or
\* was loaded for the current checkout target: every guardian in it has a
\* link row to that child (link rows are never deleted).
C5_GuardianListOfSelected ==
  \A s \in Sessions :
     /\ \A g \in guardians[s] :
           selectedChild[s] # NoChild /\ HasLinkRow(selectedChild[s].id, g)
     /\ \A g \in checkOutGuardians[s] :
           checkOutTarget[s] # NoRow /\ HasLinkRow(checkOutTarget[s].child_id, g)

\* what cancel leaves: no selected child, no guardian list, no search results
CheckInIdle(s) ==
  /\ ~checkInOpen[s]
  /\ selectedChild[s] = NoChild
  /\ guardians[s] = {}
  /\ results[s] = {}
  /\ ~createGuardianOpen[s]

\* C10: cancel of the check-in workflow is enabled in every state in which
\* the dialog is open, and taking it leaves the session idle.
C10_CancelAlwaysToIdle ==
  /\ [](\A s \in CheckInSessions : checkInOpen[s] => ENABLED CloseCheckIn(s))
  /\ [][\A s \in CheckInSessions : CloseCheckIn(s) => CheckInIdle(s)']_vars

\* C10 witness: the dialog was cancelled while the check-in submit was in
\* flight, and the session is idle.
C10_Witness ==
  /\ CheckInIdle("s1")
  /\ checkingIn["s1"]
  /\ \E r \in Mine("s1") : r.kind = "insertAttendance"

\* ====================================================== claims: checkout
\* C2: once an attendance record's check-out time and guardian are set, no
\* later step changes them.
C2_CheckOutSetOnce ==
  [][\A i \in 1..Len(attendance) :
        attendance[i].check_out_time # 0 =>
          /\ attendance'[i].check_out_time = attendance[i].check_out_time
          /\ attendance'[i].checked_out_by_guardian_id =
               attendance[i].checked_out_by_guardian_id]_vars

\* C3: whenever a step writes the check-out of an attendance record, the
\* guardian it records is, at that moment, an active guardian with an active
\* link to the record's child.
C3_CheckOutGuardianLinkedAtCommit ==
  [][\A i \in 1..Len(attendance) :
        attendance'[i] # attendance[i] =>
          attendance'[i].checked_out_by_guardian_id \in
            guardiansIn(guardians_tbl,
                        activeLinkIds(child_guardians, attendance[i].child_id))]_vars

\* ======================================================== claims: roster
\* C9: when no store call of the session is in flight any more, the roster
\* held is the one of the selected service date: each of its rows is an
\* attendance record of that date.
C9_RosterOfSelectedDate ==
  \A s \in Sessions :
     Mine(s) = {} =>
       \A k \in 1..Len(checkedIn[s]) :
          attendance[checkedIn[s][k].attendance_id].service_date = serviceSunday[s]

\* ================================================= claims: search boxes
\* C6: in the check-in child search and in the guardian search of the
\* edit-child form, the response of a query that a newer query has already
\* superseded leaves the results state as it is, success or error.
C6_SupersededSearchKeepsResults ==
  [][/\ \A r \in inflight :
          (r.stale /\ \E ok \in BOOLEAN : SearchDone(Terminal, r, ok))
            => results'[Terminal] = results[Terminal]
     /\ \A r \in inflight :
          (r.stale /\ \E ok \in BOOLEAN : EditSearchDone(r, ok))
            => editChild'.searchResults = editChild.searchResults]_vars

\* C6 witness: the newer check-in query has resolved and its results are
\* shown, while the superseded query, whose rows would differ, is still on
\* its way.
C6_Witness ==
  \E r \in Mine(Terminal) :
     /\ r.kind = "search" /\ r.stale
     /\ ~searching[Terminal]
     /\ results[Terminal] # {}
     /\ results[Terminal] # searchChildren(children_tbl, r.term)

\* C7: in the Manage dialog's children search and guardians search, the
\* response of a query that a newer query has already superseded leaves the
\* results state as it is.
C7_SupersededManageSearchKeepsResults ==
  [][/\ \A r \in inflight :
          (r.stale /\ \E ok \in BOOLEAN : ManageChildrenDone(r, ok))
            => manage'.childResults = manage.childResults
     /\ \A r \in inflight :
          (r.stale /\ \E ok \in BOOLEAN : ManageGuardiansDone(r, ok))
            => manage'.guardianResults = manage.guardianResults]_vars

\* C8: in the guardian search of the create-child form, the response of a
\* query that a newer query (new term, or a change of the staged list) has
\* already superseded leaves the results state as it is.
C8_SupersededCreateSearchKeepsResults ==
  [][\A r \in inflight :
        (r.stale /\ \E ok \in BOOLEAN : CreateSearchDone(r, ok))
          => createChild'.searchResults = createChild.searchResults]_vars

\* ============================================ claims: close and pending work
\* C11: while the check-in dialog is closed the selected child is none and
\* the search results and the guardian list are empty, and while the
\* checkout dialog is closed the checkout target is none and its guardian
\* list is empty, whatever store call started before the close resolves
\* after it.
C11_ClosedStaysCleared ==
  \A s \in Sessions :
     /\ ~checkInOpen[s] =>
          /\ selectedChild[s] = NoChild
          /\ results[s] = {}
          /\ guardians[s] = {}
     /\ ~checkOutOpen[s] =>
          /\ checkOutTarget[s] = NoRow
          /\ checkOutGuardians[s] = {}

\* ================================================ claims: minimum term length
\* the store calls that are search queries
SearchKinds == {"search", "manageChildren", "manageGuardians", "editSearch",
                "createSearch"}

\* C12: no search query is sent for a trimmed term of fewer than 2
\* characters, and whenever the term a search box shows is that short its
\* results are empty (check-in search step, the active tab of the Manage
\* dialog, the edit-child form, the create-child form).
C12_ShortTermNoQueryNoResults ==
  /\ \A r \in inflight : r.kind \in SearchKinds => Len(r.term) >= 2
  /\ \A s \in Sessions :
        (checkInOpen[s] /\ selectedChild[s] = NoChild /\ Len(Trim(query[s])) < 2)
          => results[s] = {}
  /\ (manage.open /\ manage.tab = "children" /\ Len(Trim(manage.childQuery)) < 2)
        => manage.childResults = {}
  /\ (manage.open /\ manage.tab = "guardians" /\ Len(Trim(manage.guardianQuery)) < 2)
        => manage.guardianResults = {}
  /\ (manage.editChildId # NULL /\ Len(Trim(editChild.search)) < 2)
        => editChild.searchResults = {}
  /\ (createChild.open /\ Len(Trim(createChild.search)) < 2)
        => createChild.searchResults = {}

\* ==================================================== claims: guardian links
\* C13: the store never holds two link rows for the same (child, guardian)
\* pair, whichever flows linked the pair and however two terminals
\* interleave.
C13_OneLinkRowPerPair ==
  \A i, j \in 1..Len(child_guardians) :
     (/\ child_guardians[i].child_id = child_guardians[j].child_id
      /\ child_guardians[i].guardian_id = child_guardians[j].guardian_id) => i = j

\* C14: a successful unlink of (child, guardian) sets active = false on the
\* rows of that pair and changes nothing else: no link row is deleted, every
\* other link row and every guardian and child record stay as they were;
\* right after it the guardian is not among the child's active guardians.
C14_UnlinkOnlyDeactivates ==
  [][\A r \in inflight :
       EditUnlinked(r, TRUE) =>
         /\ Len(child_guardians') = Len(child_guardians)
         /\ \A i \in 1..Len(child_guardians) :
              child_guardians'[i] =
                IF i \in linkRows(child_guardians, r.child, r.guardian)
                  THEN [child_guardians[i] EXCEPT !.active = "false"]
                  ELSE child_guardians[i]
         /\ guardians_tbl' = guardians_tbl
         /\ children_tbl' = children_tbl
         /\ r.guardian \notin linkedGuardiansOf(child_guardians', guardians_tbl', r.child)
         /\ r.guardian \notin guardiansIn(guardians_tbl',
                                          activeLinkIds(child_guardians', r.child))]_vars

\* an unlink has deactivated a link of a child that holds another, active one
C14_Witness ==
  \E i, j \in 1..Len(child_guardians) :
     /\ child_guardians[i].child_id = child_guardians[j].child_id
     /\ child_guardians[i].active = "false"
     /\ child_guardians[j].active = "true"

\* the guardians that hold an active link to child c and are active themselves
ActiveGuardiansOf(c) ==
  { g \in Guardians :
      /\ guardians_tbl[g].active = "true"
      /\ \E i \in 1..Len(child_guardians) :
            /\ child_guardians[i].child_id = c
            /\ child_guardians[i].guardian_id = g
            /\ child_guardians[i].active = "true" }

GuardiansNotInactiveOf(c, strict) ==
  { g \in Guardians :
      /\ guardians_tbl[g].active # "false"
      /\ \E i \in 1..Len(child_guardians) :
            /\ child_guardians[i].child_id = c
            /\ child_guardians[i].guardian_id = g
            /\ IF strict THEN child_guardians[i].active = "true"
                          ELSE child_guardians[i].active # "false" }

C16_DuplicateGuardianOutcome ==
  [][\A r \in inflight :
       (/\ GuardianInserted(r, TRUE)
        /\ \E g \in Guardians :
              /\ guardians_tbl[g].active = "true"
              /\ <<guardians_tbl[g].first_name, guardians_tbl[g].last_name,
                    guardians_tbl[g].phone>>
                   = <<r.form.first_name, r.form.last_name, r.form.phone>>)
         => /\ guardians_tbl' = guardians_tbl
            /\ child_guardians' = child_guardians
            /\ inflight' = inflight \ {r}
            /\ editChild'.linking = editChild.linking
            /\ r.cont = "inline" =>
                  /\ editChild'.inline.error = "duplicate"
                  /\ ~editChild'.inline.saving
                  /\ editChild'.inline.form = editChild.inline.form
                  /\ editChild'.createGuardianOpen]_vars

\* the form shows the duplicate message for fields that, trimmed, are those
\* of guardian g1, and no guardian was added
C16_Witness ==
  /\ editChild.createGuardianOpen
  /\ editChild.inline.error = "duplicate"
  /\ editChild.inline.form.first_name = <<" ", "A", "n", "a">>
  /\ guardians_tbl["g2"].active = "absent"

GuardianFormBlank ==
  /\ manage.editChildId # NULL /\ ~editChild.loading /\ ~editChild.linking
  /\ editChild.createGuardianOpen /\ ~editChild.inline.saving
  /\ \/ Trim(editChild.inline.form.first_name) = <<>>
     \/ Trim(editChild.inline.form.phone) = <<>>

\* the create-child form is shown and idle with a blank name or no date
ChildFormBlank ==
  /\ createChild.open /\ ~createChild.saving
  /\ \/ Trim(createChild.form.first_name) = <<>>
     \/ Trim(createChild.form.last_name) = <<>>
     \/ createChild.form.dob = NoDob

C20_CheckInCreatesOneRecord ==
  [][ \A s \in Sessions :
        /\ \A g \in Guardians :
             completeCheckIn(s, g) =>
               \E r \in inflight' \ inflight :
                  /\ inflight' = inflight \cup {r}
                  /\ r.kind = "insertAttendance" /\ r.sess = s
                  /\ r.child = selectedChild[s].id /\ r.guardian = g
                  /\ r.date = serviceSunday[s]
        /\ \A r \in inflight :
             CheckInInserted(s, r, TRUE) =>
               /\ Len(attendance') = Len(attendance) + 1
               /\ SubSeq(attendance', 1, Len(attendance)) = attendance
               /\ LET row == attendance'[Len(attendance')]
                  IN  /\ row.child_id = r.child
                      /\ row.checked_in_by_guardian_id = r.guardian
                      /\ row.service_date = r.date
                      /\ row.check_out_time = 0
                      /\ row.checked_out_by_guardian_id = NULL
               /\ \E l \in inflight' \ inflight :
                     /\ l.kind = "loadToday" /\ l.sess = s /\ l.date = r.date
                     /\ inflight' = (inflight \ {r}) \cup {l}
        /\ \A r \in inflight, ok \in BOOLEAN :
             (TodayLoaded(s, r, ok) /\ r.cont = "checkin") =>
               /\ ~checkInOpen'[s] /\ ~checkingIn'[s]
               /\ query'[s] = <<>> /\ results'[s] = {}
               /\ selectedChild'[s] = NoChild /\ guardians'[s] = {}
               /\ ok => checkedIn'[s] = rosterRows(attendance, children_tbl, r.date) ]_vars

\* c1 has been checked in by g1, the roster shows the row and the session
\* is idle again
C20_Witness ==
  /\ Len(attendance) = 1
  /\ attendance[1].child_id = "c1" /\ attendance[1].checked_in_by_guardian_id = "g1"
  /\ Len(checkedIn["s1"]) = 1
  /\ ~checkInOpen["s1"] /\ ~checkingIn["s1"] /\ selectedChild["s1"] = NoChild
  /\ inflight = {}

\* ---------------------------------------------------------------- C21
\* C21: no step changes the bucket of an attendance row that exists, and a
\* roster load of date D that succeeds shows every row of D without a
\* check-out as an open row of the section of the bucket the row stores.
C21_BucketFrozenAtCheckIn ==
  [][ /\ Len(attendance') >= Len(attendance)
      /\ \A i \in 1..Len(attendance) :
            attendance'[i].group_key = attendance[i].group_key
      /\ \A s \in Sessions, r \in inflight :
            TodayLoaded(s, r, TRUE) =>
              \A i \in 1..Len(attendance) :
                 (attendance[i].service_date = r.date /\ attendance[i].check_out_time = 0)
                   => \E k \in 1..Len(grouped(checkedIn'[s])[attendance[i].group_key]) :
                         LET row == grouped(checkedIn'[s])[attendance[i].group_key][k]
                         IN  row.attendance_id = i /\ IsOpen(row) ]_vars

\* the date of birth of c1 now gives another bucket than the one stored at
\* its check-in, and the loaded roster shows c1 open under the stored one
C21_Witness ==
  /\ attendance[1].group_key = "KINDY_PREPRIMARY"
  /\ groupKeyForAgeOnJune30(ageOnJune30ThisYear(children_tbl["c1"].dob)) = "YEARS_4_6"
  /\ ~loadingToday["s1"] /\ inflight = {}
  /\ Len(grouped(checkedIn["s1"])["KINDY_PREPRIMARY"]) = 1
  /\ IsOpen(checkedIn["s1"][1])

\* ---------------------------------------------------------------- C22
\* the rows the roster renders: the sections in their order
shownRows(rows) ==
  grouped(rows)[groupOrder[1]] \o grouped(rows)[groupOrder[2]]
    \o grouped(rows)[groupOrder[3]]

\* C22: a roster load of date D that succeeds renders exactly one row for
\* every attendance row of D, open or closed, whatever its bucket value.
C22_RosterShowsEveryRecord ==
  [][ \A s \in Sessions, r \in inflight :
        TodayLoaded(s, r, TRUE) =>
          LET shown == shownRows(checkedIn'[s])
              ofDay == { i \in 1..Len(attendance) : attendance[i].service_date = r.date }
          IN  /\ { shown[k].attendance_id : k \in 1..Len(shown) } = ofDay
              /\ Len(shown) = Cardinality(ofDay) ]_vars

\* ---------------------------------------------------------------- C23
\* the youngest whole-year age that is classified into a bucket
youngestAgeOf(key) ==
  CHOOSE a \in 0..12 :
     /\ groupKeyForAgeOnJune30({a}) = key
     /\ \A b \in 0..(a - 1) : groupKeyForAgeOnJune30({b}) # key

\* C23: a roster load that succeeds renders the rows bucket by bucket from
\* the youngest bucket to the oldest, and inside a bucket by check-in time
\* ascending.
C23_RosterOrder ==
  [][ \A s \in Sessions, r \in inflight :
        TodayLoaded(s, r, TRUE) =>
          LET shown == shownRows(checkedIn'[s])
          IN  /\ Len(shown) =
                   Cardinality({ i \in 1..Len(attendance) :
                                   attendance[i].service_date = r.date })
              /\ \A i, j \in 1..Len(shown) :
                    i < j =>
                      \/ youngestAgeOf(shown[i].group_key)
                           < youngestAgeOf(shown[j].group_key)
                      \/ /\ shown[i].group_key = shown[j].group_key
                         /\ shown[i].check_in_time <= shown[j].check_in_time ]_vars

\* the second row of the table holds the earlier check-in time of the same
\* bucket, and the roster shows it first
C23_Witness ==
  /\ Len(attendance) = 2
  /\ attendance[1].group_key = attendance[2].group_key
  /\ attendance[2].check_in_time < attendance[1].check_in_time
  /\ Len(shownRows(checkedIn["s1"])) = 2
  /\ shownRows(checkedIn["s1"])[1].attendance_id = 2

\* the first row of the table is of an older bucket than the second, and
\* the roster shows the second first
C23_WitnessBuckets ==
  /\ Len(attendance) = 2
  /\ attendance[1].group_key = "YEARS_4_6" /\ attendance[2].group_key = "YEARS_1_3"
  /\ Len(shownRows(checkedIn["s1"])) = 2
  /\ shownRows(checkedIn["s1"])[1].attendance_id = 2

\* ------------------------------------------------------------------ C24
\* the date of birth of the child of attendance row k
dobOfRow(k) == children_tbl[attendance[k].child_id].dob

C25_TotalWithDefault ==
  \A k \in 1..Len(attendance) :
     /\ attendance[k].group_key \in {"KINDY_PREPRIMARY", "YEARS_1_3", "YEARS_4_6"}
     /\ dobOfRow(k) = NoDob => attendance[k].group_key = "YEARS_1_3"

\* C25: the classification is total (one of the three buckets, the default one
\* for an absent date of birth) and its result is fixed by the date of birth
\* and the cutoff alone: the bucket stored with a check-in is the bucket any
\* device with the same 30 June cutoff gives that date of birth.
C25_ClassificationPureAndTotal ==
  /\ C25_TotalWithDefault
  /\ \A k \in 1..Len(attendance) : \A o \in Offsets :
       groupKeyForAgeOnJune30(ageOnDevice(dobOfRow(k), [env EXCEPT !.offset = o]))
         = attendance[k].group_key

\* ------------------------------------------------------------------ C26
\* whole years on 30 June of year: the years between, less one exactly when
\* (June, 30) comes before the (month, day) of birth
wholeYearsOn30June(dob, year) ==
  (year - dob.y) - (IF dob.m > 6 \/ (dob.m = 6 /\ dob.d > 30) THEN 1 ELSE 0)

\* C26: the age a check-in is classified by is the number of whole years of
\* the child on the cutoff, a birthday on the cutoff day counting as had.
C26_AgeIsWholeYearsOnCutoff ==
  \A k \in 1..Len(attendance) :
     dobOfRow(k) \notin {NoDob, BadDob} =>
       ageOnJune30ThisYear(dobOfRow(k))
         = { wholeYearsOn30June(dobOfRow(k), getFullYear(env.today)) }

\* ------------------------------------------------------------------ C27
\* C27: in every reachable state the selected service date of every session
\* is a Sunday.
C27_ServiceDateIsSunday ==
  \A s \in Sessions : getDay(serviceSunday[s]) = 0

\* the picker, mounted on a day that is not a Sunday, has been moved
C27_Witness ==
  /\ getDay(env.today) # 0
  /\ serviceSunday["s1"] # nextOrSameSunday(env.today)
  /\ getMonth(serviceSunday["s1"]) # getMonth(env.today)

\* ------------------------------------------------------------------ C28
\* d is the earliest Sunday on or after day t: t itself when t is a Sunday,
\* otherwise the Sunday one to six days later
earliestSundayFrom(d, t) ==
  /\ getDay(d) = 0
  /\ d - t \in 0..6
  /\ \A e \in t..(d - 1) : getDay(e) # 0

\* C28: the service date selected when the page is mounted is the earliest
\* Sunday on or after the device's today, and so is nextOrSameSunday of today
\* at any time.
C28_InitialDateIsEarliestSunday ==
  /\ \A s \in Sessions : earliestSundayFrom(serviceSunday[s], env.today)
  /\ [](earliestSundayFrom(nextOrSameSunday(env.today), env.today))

\* the page is mounted on a Sunday and its first load has come back
C28_Witness ==
  /\ getDay(env.today) = 0
  /\ serviceSunday["s1"] = env.today
  /\ ~loadingToday["s1"]

\* ------------------------------------------------------------------ C29
\* C29: every step of the date picker moves the selected date by exactly seven
\* days, the opposite step leads back, and from 2025-06-08 "next" selects
\* 2025-06-15 and "prev" 2025-06-01.
C29_StepsBySevenDays ==
  [][\A s \in RosterSessions :
       /\ stepSunday(s, "next") =>
            /\ serviceSunday'[s] = serviceSunday[s] + 7
            /\ addDays(serviceSunday'[s], -7) = serviceSunday[s]
            /\ toISODate(serviceSunday[s]) = [y |-> 2025, m |-> 6, d |-> 8]
                 => toISODate(serviceSunday'[s]) = [y |-> 2025, m |-> 6, d |-> 15]
       /\ stepSunday(s, "prev") =>
            /\ serviceSunday'[s] = serviceSunday[s] - 7
            /\ addDays(serviceSunday'[s], 7) = serviceSunday[s]
            /\ toISODate(serviceSunday[s]) = [y |-> 2025, m |-> 6, d |-> 8]
                 => toISODate(serviceSunday'[s]) = [y |-> 2025, m |-> 6, d |-> 1]
    ]_vars

\* the picker has stepped back from 2026-01-04 into the year before
C29_Witness ==
  /\ toISODate(nextOrSameSunday(env.today)) = [y |-> 2026, m |-> 1, d |-> 4]
  /\ toISODate(serviceSunday["s1"]) = [y |-> 2025, m |-> 12, d |-> 28]

\* ------------------------------------------------------------------ C30
\* C30: no step deletes a row. A child or guardian the store holds is still
\* held after the step, every link row and attendance row is still there, and
\* an attendance row keeps its child, service date, bucket, check-in time and
\* check-in guardian.
C30_NoHardDelete ==
  [][/\ \A c \in Children :
          children_tbl[c].active # "absent" => children_tbl'[c].active # "absent"
     /\ \A g \in Guardians :
          guardians_tbl[g].active # "absent" => guardians_tbl'[g].active # "absent"
     /\ Len(child_guardians') >= Len(child_guardians)
     /\ \A i \in 1..Len(child_guardians) :
          /\ child_guardians'[i].child_id = child_guardians[i].child_id
          /\ child_guardians'[i].guardian_id = child_guardians[i].guardian_id
     /\ Len(attendance') >= Len(attendance)
     /\ \A k \in 1..Len(attendance) :
          /\ attendance'[k].child_id = attendance[k].child_id
          /\ attendance'[k].service_date = attendance[k].service_date
          /\ attendance'[k].group_key = attendance[k].group_key
          /\ attendance'[k].check_in_time = attendance[k].check_in_time
          /\ attendance'[k].checked_in_by_guardian_id
               = attendance[k].checked_in_by_guardian_id
    ]_vars

\* c1 has been checked out, its date of birth edited and its link ended, and a
\* second check-in has been stored: both attendance rows and the link remain
C30_Witness ==
  /\ Len(attendance) = 2
  /\ attendance[1].check_out_time # 0
  /\ attendance[1].group_key = "KINDY_PREPRIMARY"
  /\ children_tbl["c1"].dob = [y |-> 2015, m |-> 1, d |-> 1]
  /\ Len(child_guardians) = 1
  /\ child_guardians[1].active = "false"

\* ------------------------------------------------------------------ C31
\* C31, the edit-child form: the guardian search results shown are disjoint
\* from the linked-guardian list shown.
C31_EditResultsExcludeLinked ==
  editChild.searchResults \cap editChild.linkedGuardians = {}

\* C31: at every moment the guardian search results of the edit-child form and
\* of the create-child form hold no guardian of the form's current linked
\* (staged) guardian list.
C31_ResultsExcludeLinked ==
  /\ C31_EditResultsExcludeLinked
  /\ createChild.searchResults \cap staged(createChild.linkedGuardians) = {}

\* ------------------------------------------------------------------ C32
\* the guardian step of check-in shows the selected child with no guardian,
\* and the child has no active link
ZeroGuardianStep(s) ==
  /\ checkInOpen[s] /\ selectedChild[s] # NoChild
  /\ ~loadingGuardians[s] /\ guardians[s] = {} /\ guardianError[s] = NULL
  /\ ~checkingIn[s] /\ ~linkingGuardian[s]
  /\ activeLinkIds(child_guardians, selectedChild[s].id) = {}

\* a step of the workflow sends a guardian search, or a link of the selected
\* child to a guardian the store already holds
LinkExistingStep(s) ==
  /\ NextInline
  /\ \E r \in inflight' \ inflight :
       /\ r.sess = s
       /\ \/ r.kind \in {"editSearch", "createSearch", "manageGuardians"}
          \/ /\ r.kind \in {"ciLinkInsert", "editLinkSelect", "editLinkInsert"}
             /\ r.child = selectedChild[s].id
             /\ guardians_tbl[r.guardian].active = "true"

\* C32: in the guardian step of a child with zero active linked guardians
\* both routes are offered: creating a new guardian, and linking a guardian
\* the store already holds (found through a guardian search).
C32_BothRoutesOffered ==
  \A s \in InlineSessions :
     ZeroGuardianStep(s) =>
       /\ ENABLED ToggleCreateGuardian(s)
       /\ ENABLED LinkExistingStep(s)

\* C32, the route that exists: in that guardian step the inline form to
\* create a guardian can be opened.
C32_CreateRouteOffered ==
  \A s \in InlineSessions : ZeroGuardianStep(s) => ENABLED ToggleCreateGuardian(s)

\* C32, the route that does not: inside the check-in workflow g1, an active
\* guardian without a link to c2, never gets a link to c2.
C32_ExistingGuardianNeverLinked == ~HasLinkRow("c2", "g1")

\* C32, the create route ends with the child checked in by the new guardian
C32_CreatedGuardianChecksIn ==
  \E k \in 1..Len(attendance) :
     /\ attendance[k].child_id = "c2"
     /\ attendance[k].checked_in_by_guardian_id = "g2"
     /\ HasLinkRow("c2", "g2")

\* C32, the state the claim is about is reached: c2 in the guardian step with
\* no guardian, while g1 is an active guardian of the store
C32_ZeroGuardianStepReached ==
  /\ ZeroGuardianStep("s1") /\ selectedChild["s1"].id = "c2"
  /\ guardians_tbl["g1"].active = "true"

\* ------------------------------------------------------------------ C36
\* the guardian rows created through the inline form: the store of InitInline
\* and InitPickup holds g1 only
inlineCreated == { g \in Guardians \ {"g1"} : guardians_tbl[g].active # "absent" }

\* the link insert of a created guardian is still awaited
linkAwaited(g) ==
  \E r \in inflight : r.kind \in {"ciLinkInsert", "coLinkInsert"} /\ r.guardian = g

linkedToSomeChild(g) == \E c \in Children : g \in activeLinkIds(child_guardians, c)

\* C36: create+link through the inline form is all-or-nothing: once the link
\* insert has resolved every guardian row the form created has an active
\* link, and the form never answers "duplicate" because of a guardian that
\* was left without a link.
C36_CreateLinkAllOrNothing ==
  /\ \A g \in inlineCreated : linkAwaited(g) \/ linkedToSomeChild(g)
  /\ \A s \in Sessions :
       inline[s].error = "duplicate" =>
         \A g \in Guardians :
            /\ guardians_tbl[g].active = "true"
            /\ guardians_tbl[g].first_name = inline[s].form.first_name
            /\ guardians_tbl[g].last_name = inline[s].form.last_name
            /\ guardians_tbl[g].phone = inline[s].form.phone
            => linkedToSomeChild(g)

\* C36, the retry: the form answers "duplicate" to the details of g2, which
\* it created itself and which has no link
C36_RetryEndsInDuplicate ==
  /\ inline["s1"].error = "duplicate"
  /\ inline["s1"].form.first_name = guardians_tbl["g2"].first_name
  /\ guardians_tbl["g2"].active = "true"
  /\ ~linkedToSomeChild("g2") /\ ~linkAwaited("g2")

\* ------------------------------------------------------------------ C33
\* steps in which the identity check ends without a valid caller
lookupWithoutSession(s) == SessionLooked(s, "none")
lookupFailed(s)         == SessionLooked(s, "error")
signOutEvent(s)         == AuthStateChanged(s, FALSE)

\* C33: every outcome of the identity check without a valid caller (no
\* session, a failed session lookup, a later sign-out event) hands the
\* session off to the login route.
C33_NoCallerHandsOff ==
  [][\A s \in AuthSessions :
       (lookupWithoutSession(s) \/ lookupFailed(s) \/ signOutEvent(s))
          => auth'[s].route = "login"]_vars

\* C33, the part that holds: a lookup that finds no session and a sign-out
\* event hand off to the login route.
C33_AbsenceHandsOff ==
  [][\A s \in AuthSessions :
       (lookupWithoutSession(s) \/ signOutEvent(s)) => auth'[s].route = "login"]_vars

\* C33, the state the failed lookup leaves: the page is shown after the
\* check, with no caller known and the check-in dialog in use
C33_OnPageWithoutCaller ==
  /\ onToday("s1") /\ ~auth["s1"].authLoading /\ auth["s1"].authEmail = NULL
  /\ auth["s1"].authError = "error"
  /\ checkInOpen["s1"] /\ results["s1"] # {}

\* ------------------------------------------------------------------ C34
\* the check-in dialog shows a cycle that is not the one of the submit whose
\* loadToday of the given date resolves: Back is disabled while checkingIn, so
\* another child is selected only after a close and a reopen, and the child
\* of the submit has a row of that date
newerCheckInCycle(s, date) ==
  /\ checkInOpen[s] /\ selectedChild[s] # NoChild
  /\ \A k \in 1..Len(attendance) :
        ~(attendance[k].child_id = selectedChild[s].id /\ attendance[k].service_date = date)

\* the checkout dialog shows a record that is still open: the record of the
\* submit whose loadToday resolves has its check-out time set
newerCheckOutCycle(s) ==
  /\ checkOutOpen[s] /\ checkOutTarget[s] # NoRow
  /\ attendance[checkOutTarget[s].attendance_id].check_out_time = 0

checkInCycleKept(s) ==
  /\ checkInOpen'[s] = checkInOpen[s]
  /\ selectedChild'[s] = selectedChild[s]
  /\ guardians'[s] = guardians[s]

checkOutCycleKept(s) ==
  /\ checkOutOpen'[s] = checkOutOpen[s]
  /\ checkOutTarget'[s] = checkOutTarget[s]
  /\ checkOutGuardians'[s] = checkOutGuardians[s]

\* C34: the completion of a check-in submit that was left behind by a close
\* and a new cycle (check-in reopened, another child selected) does not close
\* or reset the newer cycle: dialog, selected child and guardian list stay.
C34_EarlierCheckInKeepsNewerCycle ==
  [][\A s \in Sessions, r \in inflight, ok \in BOOLEAN :
       /\ (TodayLoaded(s, r, ok) /\ r.cont = "checkin" /\ newerCheckInCycle(s, r.date))
             => checkInCycleKept(s)
       /\ (CheckInInserted(s, r, FALSE) /\ checkInOpen[s]
             /\ selectedChild[s] # NoChild /\ selectedChild[s].id # r.child)
             => checkInCycleKept(s)]_vars

\* C34, checkout: the completion of a checkout submit left behind by a close
\* and the opening of checkout for another record does not close or reset
\* the newer cycle: dialog, target and guardian list stay.
C34_EarlierCheckOutKeepsNewerCycle ==
  [][\A s \in Sessions, r \in inflight, ok \in BOOLEAN :
       /\ (TodayLoaded(s, r, ok) /\ r.cont = "checkout" /\ newerCheckOutCycle(s))
             => checkOutCycleKept(s)
       /\ (CheckOutUpdated(s, r, FALSE) /\ checkOutOpen[s]
             /\ checkOutTarget[s] # NoRow /\ checkOutTarget[s].attendance_id # r.att)
             => checkOutCycleKept(s)]_vars

\* ------------------------------------------------------------------ C35
\* C35: saving a new child with staged guardians is all-or-nothing: when
\* handleSave reports a failure, of the children insert or of the insert of
\* the link rows after it, the store holds no child row of this save.
C35_SaveAllOrNothing ==
  [][\A r \in inflight :
       /\ ChildInserted(r, FALSE) => children_tbl' = children_tbl
       /\ ChildLinksInserted(r, FALSE) => children_tbl'[r.child].active = "absent"]_vars

\* C35, the part that holds: a failed children insert persists nothing
C35_FailedChildInsertPersistsNothing ==
  [][\A r \in inflight :
       ChildInserted(r, FALSE) =>
          children_tbl' = children_tbl /\ child_guardians' = child_guardians]_vars

\* C35, the state a failed link insert leaves: the form reports the failure
\* with its staged guardians, and the child row exists without any link
C35_ChildWithoutLinksAfterFailure ==
  /\ createChild.open /\ createChild.error = "error" /\ ~createChild.saving
  /\ createChild.linkedGuardians # <<>>
  /\ children_tbl["c2"].active = "true"
  /\ linkIdsNotInactive(child_guardians, "c2") = {}

\* ------------------------------------------------------------------ C37
\* a query of the search box whose response can still commit
liveQuery(s, kind) == \E r \in Mine(s) : r.kind = kind /\ ~r.cancelled

\* C37: the searching indicator of the check-in child search is off whenever
\* none of its queries can still commit (the last one resolved, or was
\* superseded by a run that sent no query).
C37_ChildSearchIndicatorClears ==
  \A s \in Sessions : searching[s] => liveQuery(s, "search")

\* C37, edit-child form: the searching indicator of the guardian search is
\* off whenever none of its queries can still commit.
C37_GuardianSearchIndicatorClears ==
  editChild.searching => liveQuery(Terminal, "editSearch")

\* C37, what the user sees: the dialog shows "Searching" over a short term
\* with nothing in flight
C37_StuckSearching ==
  /\ checkInOpen["s1"] /\ searching["s1"] /\ selectedChild["s1"] = NoChild
  /\ Len(Trim(query["s1"])) < 2
  /\ Mine("s1") = {}

\* ------------------------------------------------------------------ C38
noRepeat(list) ==
  \A i, j \in 1..Len(list) : i # j => list[i] # list[j]

\* C38: the staged guardian list of the create-child form never holds a
\* guardian twice, also when linkGuardian is called again for a guardian
\* whose earlier call is still awaiting; so handleSave never submits two
\* link rows of one pair.
C38_StagedOnce ==
  /\ noRepeat(createChild.linkedGuardians)
  /\ \A r \in inflight : r.kind \in {"childInsert", "childLinks"} => noRepeat(r.list)

\* C38, the store after the save: two link rows of the new child with the
\* same guardian
C38_TwoLinkRowsOfOnePair ==
  \E i, j \in 1..Len(child_guardians) :
     /\ i # j
     /\ child_guardians[i].child_id = "c2" /\ child_guardians[j].child_id = "c2"
     /\ child_guardians[i].guardian_id = child_guardians[j].guardian_id

\* ------------------------------------------------------------------ C39
\* what loadGuardiansForChild and loadCheckoutGuardiansForChild put into
\* their lists: links .eq("active", true), guardians with active !== false
guardiansForChild(links, tbl, c) == guardiansIn(tbl, activeLinkIds(links, c))

checkoutGuardiansForChild(links, tbl, c) == guardiansIn(tbl, activeLinkIds(links, c))

\* C39: for every store state the three computations of a child's authorized
\* guardians give the same guardians, also when the active flag of a link or
\* of a guardian is null.
C39_LoadersAgree ==
  \A c \in Children :
     /\ linkedGuardiansOf(child_guardians, guardians_tbl, c)
          = guardiansForChild(child_guardians, guardians_tbl, c)
     /\ guardiansForChild(child_guardians, guardians_tbl, c)
          = checkoutGuardiansForChild(child_guardians, guardians_tbl, c)

\* C39, the part that holds: check-in and checkout agree, and the edit-child
\* list agrees with them on a child none of whose links has a null flag.
C39_LoadersAgreeWithoutNullLinks ==
  \A c \in Children :
     /\ guardiansForChild(child_guardians, guardians_tbl, c)
          = checkoutGuardiansForChild(child_guardians, guardians_tbl, c)
     /\ (\A i \in 1..Len(child_guardians) :
            child_guardians[i].child_id = c => child_guardians[i].active # NULL)
          => linkedGuardiansOf(child_guardians, guardians_tbl, c)
               = guardiansForChild(child_guardians, guardians_tbl, c)

\* C39, the disagreement as the dialogs show it: the guardian step of
\* check-in lists nobody for c1 while the store holds a guardian the
\* edit-child form lists for c1
C39_ListedInEditOnly ==
  /\ checkInOpen[Terminal] /\ selectedChild[Terminal].id = "c1"
  /\ ~loadingGuardians[Terminal] /\ guardianError[Terminal] = NULL
  /\ guardians[Terminal] = {} /\ Mine(Terminal) = {}
  /\ linkedGuardiansOf(child_guardians, guardians_tbl, "c1") # {}

====
